---------------------------- MODULE Spec2Model ----------------------------
(***************************************************************************)
(* Model of the drift gateway's transaction lifecycle engine:              *)
(*   - the HTTP write handlers (cancel_orders, modify_orders,              *)
(*     cancel_and_place_orders) of src/src/controller.rs with the          *)
(*     instruction builders build_cancel_ix / build_modify_ix,             *)
(*   - AppState::send_tx: blockhash, signing, the first send to the        *)
(*     primary RPC, and the detached confirmer task it spawns,             *)
(*   - the mapping of a controller result to an HTTP response              *)
(*     (handle_result in src/src/main.rs).                                 *)
(* One request and the confirmer task it spawns are modelled; requests     *)
(* share no mutable state (AppState is immutable after construction).      *)
(* Time is counted in ticks of TickMs milliseconds.  The wall clock read   *)
(* by the confirmer is taken to be monotonic.                              *)
(* A transaction is the sequence of the drift instructions built for the   *)
(* request; requests name markets that exist in the program data.          *)
(*                                                                         *)
(* And of one Ws connection (accept_connection in src/src/websocket.rs):   *)
(* the handler reading the client's frames, the writer task draining the   *)
(* outbound channel, and the subscription tasks.  A step of a task or of   *)
(* the handler runs from one await that can suspend it to the next.  The   *)
(* socket accepts the writer's frames while the connection is open; an     *)
(* event stream that has ended yields None on every later poll.            *)
(*                                                                         *)
(* And of the functions that are applied on their own (FnSpec): the event  *)
(* mapping map_drift_event_for_account, handle_result and                  *)
(* handle_deser_error, get_tx_events_for_subaccount_id, and the            *)
(* fixed-point conversions with PlaceOrder::to_order_params.  `call` holds *)
(* the function and its arguments, `ret` what it returned.                 *)
(***************************************************************************)
EXTENDS Integers, Sequences, FiniteSets, TLC

(***************************************************************************)
(* Bounds of the model                                                     *)
(***************************************************************************)
\* largest number of secondary RPC endpoints configured (--extra-rpcs)
MaxExtraRpcs == 1
\* largest number of intents in a modify batch
MaxOrders == 2
\* largest client-supplied ttl, in seconds
MaxTtl == 2
\* sub_account_ids a Ws client names: 0..MaxSubId
MaxSubId == 1
\* subscription tasks one Ws connection spawns
MaxTasks == 2
\* frames one Ws client sends
MaxFrames == 3
\* raw events the event streams of one Ws connection yield
MaxEvents == 3
\* raw events of the full-channel scenario beyond the channel's capacity
QueueExcess == 2
\* bits of the model's i32, and of its i64 and u64
I32Bits == 24
I64Bits == 28
U64Bits == 28
\* decimals the conversions are applied to: mantissas in steps of
\* MantissaStep up to MaxMantissaSteps steps, scales 0..MaxScale
MantissaStep == 67
MaxMantissaSteps == 5
MaxScale == 3

(***************************************************************************)
(* Program constants                                                       *)
(***************************************************************************)
DEFAULT_TX_TTL == 6
\* tokio::time::sleep(Duration::from_millis(800)) between rounds
RetrySleepMs == 800
\* Duration::from_secs: milliseconds per second of ttl
MsPerSec == 1000

RECURSIVE GCD(_, _)
GCD(a, b) == IF b = 0 THEN a ELSE GCD(b, a % b)
\* resolution of the model's clock: divides both the sleep and a second
TickMs == GCD(MsPerSec, RetrySleepMs)
\* a sleep of half the time between rounds
SleepTicks_half == (RetrySleepMs \div 2) \div TickMs
\* the sleep between rounds, in ticks
SleepTicks == RetrySleepMs \div TickMs

(***************************************************************************)
(* Option<T>, Result<T, ControllerError>                                   *)
(***************************************************************************)
None(dflt) == [some |-> FALSE, v |-> dflt]
Some(x) == [some |-> TRUE, v |-> x]
OptionOf(S, dflt) == {None(dflt)} \cup {Some(x) : x \in S}

\* ControllerError
NoErr == [kind |-> "", code |-> 0, reason |-> ""]
BadRequest(reason) == [kind |-> "BadRequest", code |-> 0, reason |-> reason]
TxFailed(reason, code) == [kind |-> "TxFailed", code |-> code, reason |-> reason]
SdkErr(reason) == [kind |-> "Sdk", code |-> 0, reason |-> reason]
\* TxNotFound { tx_sig }: displayed as "tx not found: " and the signature
TxNotFound(tx_sig) == [kind |-> "TxNotFound", code |-> 0, reason |-> tx_sig]

Ok(val) == [ok |-> TRUE, val |-> val, err |-> NoErr]
Err(e) == [ok |-> FALSE, val |-> <<>>, err |-> e]

(***************************************************************************)
(* Request types (src/src/types.rs)                                        *)
(***************************************************************************)
Market(index, type) == [market_index |-> index, market_type |-> type]
PerpMarket == Market(0, "perp")
SpotMarket == Market(1, "spot")
\* markets present in the program data; requests name one of these
Markets == {PerpMarket, SpotMarket}

UserIdVals == {7}
OrderIdVals == {42}

RECURSIVE SeqsUpTo(_, _)
SeqsUpTo(S, n) ==
    IF n = 0 THEN {<<>>}
    ELSE LET shorter == SeqsUpTo(S, n - 1)
         IN  shorter \cup {Append(s, x) : s \in {t \in shorter : Len(t) = n - 1}, x \in S}

\* CancelOrdersRequest { market, ids, user_ids }
CancelOrdersRequest ==
    [market : OptionOf(Markets, PerpMarket),
     ids : OptionOf(SeqsUpTo(OrderIdVals, 1), <<>>),
     user_ids : OptionOf(SeqsUpTo(UserIdVals, 1), <<>>)]
DefaultCancel == [market |-> None(PerpMarket), ids |-> None(<<>>), user_ids |-> None(<<>>)]

\* ModifyOrder { market, user_order_id: Option<u8>, order_id: Option<u32>, .. }
ModifyOrder ==
    [market : {PerpMarket},
     user_order_id : OptionOf({0} \cup UserIdVals, 0),
     order_id : OptionOf(OrderIdVals, 0)]
\* ModifyOrdersRequest { orders }
ModifyOrdersRequest == SeqsUpTo(ModifyOrder, MaxOrders)

\* PlaceOrder { market, user_order_id, .. }
PlaceOrder == [market : {PerpMarket}, user_order_id : UserIdVals]
\* PlaceOrdersRequest { orders }
PlaceOrdersRequest == SeqsUpTo(PlaceOrder, 1)

\* Context.ttl: Option<u16>
TtlInputs == OptionOf(0..MaxTtl, 0)

(***************************************************************************)
(* RPC endpoints: 0 is the primary, 1..MaxExtraRpcs the secondaries        *)
(***************************************************************************)
PrimaryRpc == 0
RpcIds == 0..MaxExtraRpcs

\* Anchor program-error codes an RPC error may carry, with their names
AnchorCodes == {6002, 6003}
AnchorName(code) ==
    IF code = 6002 THEN "InsufficientDeposit" ELSE "InsufficientCollateral"
\* errors of the first send: an Anchor code, or none (transport failure)
SendErrors == OptionOf(AnchorCodes, 0)

Signature == "sig"

\* result of the first send_transaction_with_config to the primary RPC
NoSend == [status |-> "none", err |-> None(0)]
SendOk == [status |-> "ok", err |-> None(0)]
SendErr(e) == [status |-> "err", err |-> e]

VARIABLES
    wallet_read_only,   \* configuration: the wallet has no signing key
    extra_rpcs,         \* configuration: the secondary RPC endpoints
    http_pc,            \* position of the HTTP handler
    req,                \* the request being handled
    build_res,          \* result of build_cancel_ix / build_modify_ix
    tx,                 \* the signed transaction (its instructions)
    primary_res,        \* result of the first send to the primary RPC
    response,           \* HTTP response returned to the caller
    sent,               \* per RPC: send_transaction calls made with the tx
    task_pc,            \* position of the confirmer task
    elapsed,            \* ticks since the confirmer read `start`
    sleep_left,         \* ticks left of the confirmer's sleep
    round_done,         \* RPCs whose send of this round has completed, in order
    absorbed,           \* RPCs a re-broadcast to which has failed and was logged
    last_poll,          \* outcome of the latest get_signature_status
    confirmed,          \* the confirmer's `confirmed` flag
    ws_pc,              \* position of the Ws connection handler
    ws_req,             \* the Ws request being handled
    frames_left,        \* frames the client may still send
    locked,             \* the handler holds the lock of `subscriptions`
    subscriptions,      \* per sub_account_id: its task in the map, 0 for none
    sub_tasks,          \* the subscription tasks spawned by the connection
    events_left,        \* raw events the event streams may still yield
    message_queue,      \* the outbound channel message_tx -> message_rx
    message_rx_open,    \* the writer has not dropped message_rx
    writer_pc,          \* position of the writer task
    ws_out,             \* the frames written to the client, in order
    unsubscribed,       \* ids unsubscribed and not subscribed again since
    call,               \* a function applied on its own: its name and arguments
    ret                 \* what that application returned

vars == <<wallet_read_only, extra_rpcs, http_pc, req, build_res, tx, primary_res,
          response, sent, task_pc, elapsed, sleep_left, round_done, absorbed,
          last_poll, confirmed, ws_pc, ws_req, frames_left, locked, subscriptions, sub_tasks,
          events_left, message_queue, message_rx_open, writer_pc, ws_out,
          unsubscribed, call, ret>>

\* the state of one Ws connection
ws_vars == <<ws_pc, ws_req, frames_left, locked, subscriptions, sub_tasks,
             events_left, message_queue, message_rx_open, writer_pc, ws_out,
             unsubscribed>>

\* the function applied on its own
fn_vars == <<call, ret>>

cfg_vars == <<wallet_read_only, extra_rpcs>>
http_vars == <<http_pc, req, build_res, tx, primary_res, response>>
task_vars == <<task_pc, elapsed, sleep_left, round_done, absorbed, last_poll, confirmed>>

(***************************************************************************)
(* HTTP responses (handle_result)                                          *)
(***************************************************************************)
NoResponse == [status |-> 0, code |-> 0, reason |-> "", tx |-> ""]
HttpOk(sig) == [status |-> 200, code |-> 0, reason |-> "", tx |-> sig]
HttpError(status, code, reason) ==
    [status |-> status, code |-> code, reason |-> reason, tx |-> ""]

\* handle_result that answers an unknown transaction like a bad request
handle_result_not_found_400(result) ==
    IF result.ok THEN HttpOk(result.val)
    ELSE IF result.err.kind = "Sdk" THEN HttpError(500, 500, result.err.reason)
    ELSE IF result.err.kind = "TxFailed"
         THEN HttpError(400, result.err.code, result.err.reason)
    ELSE HttpError(400, 400, result.err.reason)

handle_result(result) ==
    IF result.ok THEN HttpOk(result.val)
    ELSE IF result.err.kind = "Sdk" THEN HttpError(500, 500, result.err.reason)
    ELSE IF result.err.kind = "TxFailed"
         THEN HttpError(400, result.err.code, result.err.reason)
    ELSE IF result.err.kind = "BadRequest" THEN HttpError(400, 400, result.err.reason)
    ELSE HttpError(404, 404, result.err.reason)

\* handle_deser_error: a request body that fails to deserialise
handle_deser_error(err) == HttpError(400, 400, err)

\* handle_tx_err that drops the Anchor code: every send error becomes Sdk
handle_tx_err_sdk(err) == SdkErr("rpc error")

\* handle_tx_err: an error of the first send becomes TxFailed or Sdk
handle_tx_err(err) ==
    IF err.some THEN TxFailed(AnchorName(err.v), err.v)
    ELSE SdkErr("rpc error")

(***************************************************************************)
(* Instruction builders                                                    *)
(* A builder is the sequence of instructions added so far.                 *)
(***************************************************************************)
Ix(op, market, ids) == [op |-> op, market |-> market, ids |-> ids]

\* build_cancel_ix that looks at user_ids before market
build_cancel_ix_user_ids_first(builder, r) ==
    IF r.user_ids.some
    THEN IF r.user_ids.v = <<>>
         THEN Err(BadRequest("user ids cannot be empty"))
         ELSE Ok(Append(builder, Ix("cancel_orders_by_user_id", PerpMarket, r.user_ids.v)))
    ELSE IF r.market.some
    THEN Ok(Append(builder, Ix("cancel_orders", r.market.v, <<>>)))
    ELSE IF r.ids.some
    THEN IF r.ids.v = <<>>
         THEN Err(BadRequest("ids cannot be empty"))
         ELSE Ok(Append(builder, Ix("cancel_orders_by_id", PerpMarket, r.ids.v)))
    ELSE Ok(Append(builder, Ix("cancel_all_orders", PerpMarket, <<>>)))

\* build_cancel_ix without the is_empty check of ids
build_cancel_ix_empty_ids(builder, r) ==
    IF r.market.some
    THEN Ok(Append(builder, Ix("cancel_orders", r.market.v, <<>>)))
    ELSE IF r.user_ids.some
    THEN IF r.user_ids.v = <<>>
         THEN Err(BadRequest("user ids cannot be empty"))
         ELSE Ok(Append(builder, Ix("cancel_orders_by_user_id", PerpMarket, r.user_ids.v)))
    ELSE IF r.ids.some
    THEN Ok(Append(builder, Ix("cancel_orders_by_id", PerpMarket, r.ids.v)))
    ELSE Ok(Append(builder, Ix("cancel_all_orders", PerpMarket, <<>>)))

\* build_cancel_ix that adds no instruction when no key is given
build_cancel_ix_no_default(builder, r) ==
    IF r.market.some
    THEN Ok(Append(builder, Ix("cancel_orders", r.market.v, <<>>)))
    ELSE IF r.user_ids.some
    THEN IF r.user_ids.v = <<>>
         THEN Err(BadRequest("user ids cannot be empty"))
         ELSE Ok(Append(builder, Ix("cancel_orders_by_user_id", PerpMarket, r.user_ids.v)))
    ELSE IF r.ids.some
    THEN IF r.ids.v = <<>>
         THEN Err(BadRequest("ids cannot be empty"))
         ELSE Ok(Append(builder, Ix("cancel_orders_by_id", PerpMarket, r.ids.v)))
    ELSE Ok(builder)

\* build_cancel_ix: market > user_ids > ids > cancel all
build_cancel_ix(builder, r) ==
    IF r.market.some
    THEN Ok(Append(builder, Ix("cancel_orders", r.market.v, <<>>)))
    ELSE IF r.user_ids.some
    THEN IF r.user_ids.v = <<>>
         THEN Err(BadRequest("user ids cannot be empty"))
         ELSE Ok(Append(builder, Ix("cancel_orders_by_user_id", PerpMarket, r.user_ids.v)))
    ELSE IF r.ids.some
    THEN IF r.ids.v = <<>>
         THEN Err(BadRequest("ids cannot be empty"))
         ELSE Ok(Append(builder, Ix("cancel_orders_by_id", PerpMarket, r.ids.v)))
    ELSE Ok(Append(builder, Ix("cancel_all_orders", PerpMarket, <<>>)))

\* the `for order in req.orders` loop of build_modify_ix, by user order id:
\* the first intent without user_order_id ends the request
RECURSIVE ModifyParamsByUserId(_, _)
ModifyParamsByUserId(orders, params) ==
    IF orders = <<>> THEN Ok(params)
    ELSE IF ~Head(orders).user_order_id.some
    THEN Err(BadRequest("userOrderId not set"))
    ELSE ModifyParamsByUserId(Tail(orders), Append(params, Head(orders).user_order_id.v))

\* the `for order in req.orders` loop of build_modify_ix, by order id
RECURSIVE ModifyParamsByOrderId(_, _)
ModifyParamsByOrderId(orders, params) ==
    IF orders = <<>> THEN Ok(params)
    ELSE IF ~Head(orders).order_id.some
    THEN Err(BadRequest("orderId not set"))
    ELSE ModifyParamsByOrderId(Tail(orders), Append(params, Head(orders).order_id.v))

\* addressing mode chosen by `is_some()` alone, without `x > 0`
ByUserOrderIds_is_some(orders) == orders[1].user_order_id.some

\* req.orders[0].user_order_id.is_some_and(|x| x > 0)
ByUserOrderIds(orders) ==
    orders[1].user_order_id.some /\ orders[1].user_order_id.v > 0

build_modify_ix(builder, orders) ==
    IF orders = <<>> THEN Ok(builder)
    ELSE IF ByUserOrderIds(orders)
    THEN LET params == ModifyParamsByUserId(orders, <<>>)
         IN  IF params.ok
             THEN Ok(Append(builder, Ix("modify_orders_by_user_id", PerpMarket, params.val)))
             ELSE params
    ELSE LET params == ModifyParamsByOrderId(orders, <<>>)
         IN  IF params.ok
             THEN Ok(Append(builder, Ix("modify_orders", PerpMarket, params.val)))
             ELSE params

\* TransactionBuilder::place_orders(orders): one instruction with every order
place_orders(builder, orders) ==
    Append(builder, Ix("place_orders", PerpMarket,
                       [i \in DOMAIN orders |-> orders[i].user_order_id]))

\* cancel_and_place_orders that leaves out a modify part it cannot build
cancel_and_place_orders_skip_modify(r) ==
    LET cancelled == build_cancel_ix(<<>>, r.cancel)
    IN  IF ~cancelled.ok THEN cancelled
        ELSE LET modified == build_modify_ix(cancelled.val, r.modify)
             IN  IF ~modified.ok THEN Ok(place_orders(cancelled.val, r.place))
                 ELSE Ok(place_orders(modified.val, r.place))

\* cancel_and_place_orders: build_cancel_ix(builder, req.cancel)?, then
\* build_modify_ix(builder, req.modify)?, then .place_orders(orders)
cancel_and_place_orders(r) ==
    LET cancelled == build_cancel_ix(<<>>, r.cancel)
    IN  IF ~cancelled.ok THEN cancelled
        ELSE LET modified == build_modify_ix(cancelled.val, r.modify)
             IN  IF ~modified.ok THEN modified
                 ELSE Ok(place_orders(modified.val, r.place))

\* the instructions a handler builds for its request
BuildTx(r) ==
    IF r.kind = "cancel" THEN build_cancel_ix(<<>>, r.cancel)
    ELSE IF r.kind = "modify" THEN build_modify_ix(<<>>, r.modify)
    ELSE cancel_and_place_orders(r)

(***************************************************************************)
(* Requests                                                                *)
(***************************************************************************)
RequestsOf(cancels, modifies, ttls) ==
    {[kind |-> "cancel", cancel |-> c, modify |-> <<>>, place |-> <<>>, ttl |-> t] :
        c \in cancels, t \in ttls}
    \cup
    {[kind |-> "modify", cancel |-> DefaultCancel, modify |-> m, place |-> <<>>,
      ttl |-> t] : m \in modifies, t \in ttls}

\* CancelAndPlaceRequest { cancel, modify, place }
CancelAndPlaceRequest ==
    {[kind |-> "cancel_and_place", cancel |-> c, modify |-> m, place |-> p,
      ttl |-> Some(0)] :
        c \in CancelOrdersRequest, m \in SeqsUpTo(ModifyOrder, 1), p \in PlaceOrdersRequest}

\* requests of the lifecycle specification: every ttl, a few request bodies
\* (the body decides only which instructions the transaction carries)
Requests ==
    RequestsOf({DefaultCancel, [DefaultCancel EXCEPT !.ids = Some(<<>>)]},
               {<<[market |-> PerpMarket, user_order_id |-> None(0),
                   order_id |-> Some(42)]>>},
               TtlInputs)

\* requests of the builder specification: every request body, short ttls
\* (the ttl decides only how long the confirmer runs)
BuildRequests ==
    RequestsOf(CancelOrdersRequest, ModifyOrdersRequest, {Some(0), Some(1)})
    \cup CancelAndPlaceRequest

NoRequest ==
    [kind |-> "", cancel |-> DefaultCancel, modify |-> <<>>, place |-> <<>>,
     ttl |-> None(0)]

NoResult == [ok |-> FALSE, val |-> <<>>, err |-> NoErr]
ZeroSent == [r \in RpcIds |-> 0]

(***************************************************************************)
(* Integers and rust_decimal::Decimal                                      *)
(* The machine integers keep a width: a cast `as` wraps modulo 2^bits.     *)
(* The widths are scaled down (I32Bits < I64Bits = U64Bits) so that the    *)
(* wrapped values stay inside the model checker's integers; the 128-bit    *)
(* intermediates of the scaling functions cannot overflow on a 96-bit      *)
(* mantissa and a 32-bit target and are unbounded here.                    *)
(***************************************************************************)
RECURSIVE Pow(_, _)
Pow(b, e) == IF e = 0 THEN 1 ELSE b * Pow(b, e - 1)

Abs(x) == IF x < 0 THEN 0 - x ELSE x

\* `x as uN`, `x as iN`
as_unsigned(x, bits) == x % Pow(2, bits)
as_signed(x, bits) ==
    LET u == x % Pow(2, bits)
    IN  IF u >= Pow(2, bits - 1) THEN u - Pow(2, bits) ELSE u
as_u64(x) == as_unsigned(x, U64Bits)
as_i64(x) == as_signed(x, I64Bits)
as_i32(x) == as_signed(x, I32Bits)
I64Min == 0 - Pow(2, I64Bits - 1)
I64Max == Pow(2, I64Bits - 1) - 1
U64Max == Pow(2, U64Bits) - 1

\* the outcome of an operation that can panic
Panic(dflt) == [panicked |-> TRUE, v |-> dflt]
Done(x) == [panicked |-> FALSE, v |-> x]

\* i64::neg: of i64::MIN it panics in a build with overflow checks and wraps
\* (to i64::MIN) in a build without
i64_neg(x, overflow_checks) ==
    IF x = I64Min /\ overflow_checks THEN Panic(0) ELSE Done(as_i64(0 - x))

\* Decimal: a signed mantissa m and a scale s, of value m / 10^s
\* Decimal::new(num, scale)
Decimal(num, scale) == [m |-> num, s |-> scale]
DecimalZero == Decimal(0, 0)
\* Decimal::abs, Decimal::is_sign_negative
DecimalAbs(x) == Decimal(Abs(x.m), x.s)
is_sign_negative(x) == x.m < 0
\* Decimal::normalize: strips the trailing zeros; zero becomes 0 at scale 0
RECURSIVE normalize(_)
normalize(x) ==
    IF x.m = 0 THEN DecimalZero
    ELSE IF x.s > 0 /\ x.m % 10 = 0 THEN normalize(Decimal(x.m \div 10, x.s - 1))
    ELSE x
\* impl Div for Decimal: panics on a zero divisor; the quotient is kept as
\* its dividend and divisor, normalised
NoQuotient == [dividend |-> DecimalZero, divisor |-> DecimalZero]
DecimalDiv(a, b) ==
    IF b.m = 0 THEN Panic(NoQuotient)
    ELSE Done([dividend |-> normalize(a), divisor |-> normalize(b)])

(***************************************************************************)
(* Ws connections (src/src/websocket.rs)                                   *)
(***************************************************************************)
\* tokio::sync::mpsc::channel::<Message>(64)
QueueCapacity == 64

SubIds == 0..MaxSubId
TaskIds == 1..MaxTasks

\* WsRequest { method, sub_account_id }
WsRequest(method, id) == [method |-> method, sub_account_id |-> id]
NoWsRequest == WsRequest("", 0)

\* the frames put on the outbound channel: a WsEvent of a subscription (with
\* the task that sent it and the position of its raw event in the task's
\* stream), an error frame, the Close frame
NoMessage == [kind |-> "", sub_account_id |-> 0, task |-> 0, n |-> 0, channel |-> "",
              error |-> "", reason |-> ""]
WsEvent(id, t, n, channel) ==
    [NoMessage EXCEPT !.kind = "event", !.sub_account_id = id, !.task = t, !.n = n,
                      !.channel = channel]
ErrorFrame(reason) ==
    [NoMessage EXCEPT !.kind = "error", !.error = "bad request", !.reason = reason]
CloseFrame == [NoMessage EXCEPT !.kind = "close"]

\* raw events of the subscribed account's stream (DriftEvent of the SDK): a
\* fill or a cancel names its maker and its taker, each with its order id;
\* a fill also carries each side's direction and fee and the amounts filled.
\* ts, signature and tx_idx are copied through by the mapping and left out.
Subscriber == "subscriber"
OtherAccount == "other"
NoRawEvent ==
    [kind |-> "", maker |-> None(""), taker |-> None(""),
     maker_side |-> None(""), taker_side |-> None(""),
     maker_order_id |-> 0, taker_order_id |-> 0, maker_fee |-> 0, taker_fee |-> 0,
     base_asset_amount_filled |-> 0, quote_asset_amount_filled |-> 0,
     oracle_price |-> 0, market |-> PerpMarket, order_id |-> 0,
     user_order_id |-> 0, fee |-> 0, amount |-> 0]
\* a raw event of `kind` between `maker` and `taker`: each party present has
\* its direction, and a unit amount is filled
DriftEvent(kind, maker, taker) ==
    [NoRawEvent EXCEPT !.kind = kind, !.maker = maker, !.taker = taker,
                       !.maker_side = IF maker.some THEN Some("short") ELSE None(""),
                       !.taker_side = IF taker.some THEN Some("long") ELSE None(""),
                       !.maker_order_id = 1, !.taker_order_id = 2,
                       !.base_asset_amount_filled = 1,
                       !.quote_asset_amount_filled = 1]
\* the streams of a connection yield fills of the subscriber and fills
\* between other accounts
DriftEvents ==
    {DriftEvent("OrderFill", Some(Subscriber), Some(OtherAccount)),
     DriftEvent("OrderFill", Some(OtherAccount), Some(OtherAccount))}

\* decimal places in price values: PRICE_PRECISION.ilog10()
PRICE_DECIMALS == 6
\* BASE_PRECISION.ilog10()
BASE_DECIMALS == 9

\* program data: per spot market index its decimals, where it is configured
SpotDecimals == 6
ProgramData == [spot |-> [i \in {SpotMarket.market_index} |-> SpotDecimals]]

\* get_market_decimals: .expect("market exists") panics on a spot market the
\* program data does not hold
get_market_decimals(program_data, market) ==
    IF market.market_type = "perp" THEN Done(BASE_DECIMALS)
    ELSE IF market.market_index \in DOMAIN program_data.spot
    THEN Done(program_data.spot[market.market_index])
    ELSE Panic(0)

\* AccountEvent, one record for every variant
NoAccountEvent ==
    [kind |-> "", side |-> "", fee |-> DecimalZero, amount |-> DecimalZero,
     price |-> NoQuotient, oracle_price |-> DecimalZero, order_id |-> 0,
     user_order_id |-> 0, market |-> PerpMarket,
     maker |-> None(""), maker_order_id |-> None(0), maker_fee |-> None(DecimalZero),
     taker |-> None(""), taker_order_id |-> None(0), taker_fee |-> None(DecimalZero)]

PriceDecimal(x) == Decimal(x, PRICE_DECIMALS)
\* Option<i64>::map(|x| Decimal::new(x, PRICE_DECIMALS))
OptionPriceDecimal(o) == IF o.some THEN Some(PriceDecimal(o.v)) ELSE None(DecimalZero)

\* AccountEvent::fill: price = quote / base panics on a zero base amount
AccountEvent_fill(side, fee, base_amount, quote_amount, oracle_price, order_id, decimals, market, maker, maker_order_id, maker_fee, taker, taker_order_id, taker_fee) ==
    LET base == Decimal(as_i64(base_amount), decimals)
        price == DecimalDiv(Decimal(as_i64(quote_amount), PRICE_DECIMALS), base)
    IN  IF price.panicked THEN Panic(NoAccountEvent)
        ELSE Done([NoAccountEvent EXCEPT
                     !.kind = "Fill",
                     !.side = IF side = "long" THEN "buy" ELSE "sell",
                     !.price = price.v,
                     !.oracle_price = normalize(PriceDecimal(oracle_price)),
                     !.fee = normalize(PriceDecimal(fee)),
                     !.order_id = order_id,
                     !.amount = normalize(base),
                     !.market = market,
                     !.maker = maker,
                     !.maker_order_id = maker_order_id,
                     !.maker_fee = OptionPriceDecimal(maker_fee),
                     !.taker = taker,
                     !.taker_order_id = taker_order_id,
                     !.taker_fee = OptionPriceDecimal(taker_fee)])

\* what the mapping returns: (Channel, Option<AccountEvent>)
Mapped(channel, data) == [channel |-> channel, data |-> data]
NoMapped == Mapped("", None(NoAccountEvent))

\* the fill of one leg: the leg's side (unwrap panics when it is absent),
\* fee and order id
FillLeg(event, decimals, side, fee, order_id) ==
    IF ~side.some THEN Panic(NoMapped)
    ELSE LET fill == AccountEvent_fill(side.v, fee, event.base_asset_amount_filled,
                                       event.quote_asset_amount_filled,
                                       event.oracle_price, order_id, decimals,
                                       event.market, event.maker,
                                       Some(event.maker_order_id),
                                       Some(event.maker_fee), event.taker,
                                       Some(event.taker_order_id),
                                       Some(as_i64(event.taker_fee)))
         IN  IF fill.panicked THEN Panic(NoMapped)
             ELSE Done(Mapped("fills", Some(fill.v)))

\* DriftEvent::OrderFill: the maker's leg when the subscriber is the maker,
\* else the taker's leg when it is the taker, else None
map_order_fill(program_data, event, sub_account_address) ==
    LET decimals == get_market_decimals(program_data, event.market)
    IN  IF decimals.panicked THEN Panic(NoMapped)
        ELSE IF event.maker = Some(sub_account_address)
        THEN FillLeg(event, decimals.v, event.maker_side, event.maker_fee,
                     event.maker_order_id)
        ELSE IF event.taker = Some(sub_account_address)
        THEN FillLeg(event, decimals.v, event.taker_side, as_i64(event.taker_fee),
                     event.taker_order_id)
        ELSE Done(Mapped("fills", None(NoAccountEvent)))

\* DriftEvent::OrderCancel: the maker's order id when the subscriber is the
\* maker, else the taker's
map_order_cancel_taker_only(event, sub_account_address) ==
    Done(Mapped("orders", Some([NoAccountEvent EXCEPT
                                  !.kind = "OrderCancel",
                                  !.order_id = event.taker_order_id])))
map_order_cancel(event, sub_account_address) ==
    LET order_id == IF event.maker = Some(sub_account_address)
                    THEN event.maker_order_id
                    ELSE event.taker_order_id
    IN  Done(Mapped("orders", Some([NoAccountEvent EXCEPT
                                      !.kind = "OrderCancel",
                                      !.order_id = order_id])))

\* DriftEvent::OrderCancelMissing
map_order_cancel_missing(event) ==
    Done(Mapped("orders", Some([NoAccountEvent EXCEPT
                                  !.kind = "OrderCancelMissing",
                                  !.user_order_id = event.user_order_id,
                                  !.order_id = event.order_id])))

\* DriftEvent::OrderExpire: fee = Decimal::new((fee as i64).neg(), PRICE_DECIMALS)
map_order_expire(event, overflow_checks) ==
    LET fee == i64_neg(as_i64(event.fee), overflow_checks)
    IN  IF fee.panicked THEN Panic(NoMapped)
        ELSE Done(Mapped("orders", Some([NoAccountEvent EXCEPT
                                           !.kind = "OrderExpire",
                                           !.order_id = event.order_id,
                                           !.fee = PriceDecimal(fee.v)])))

\* DriftEvent::OrderCreate: the order with the decimals of its market
map_order_create(program_data, event) ==
    LET decimals == get_market_decimals(program_data, event.market)
    IN  IF decimals.panicked THEN Panic(NoMapped)
        ELSE Done(Mapped("orders", Some([NoAccountEvent EXCEPT
                                           !.kind = "OrderCreate",
                                           !.order_id = event.order_id,
                                           !.market = event.market])))

\* DriftEvent::FundingPayment
map_funding_payment(event) ==
    Done(Mapped("funding", Some([NoAccountEvent EXCEPT
                                   !.kind = "FundingPayment",
                                   !.amount = normalize(PriceDecimal(event.amount)),
                                   !.market = event.market])))

\* map_drift_event_for_account, in a build with or without overflow checks:
\* the channel, and the event when it concerns the subscriber
map_drift_event_for_account(program_data, event, sub_account_address, overflow_checks) ==
    CASE event.kind = "OrderFill" ->
           map_order_fill(program_data, event, sub_account_address)
      [] event.kind = "OrderCancel" -> map_order_cancel(event, sub_account_address)
      [] event.kind = "OrderCancelMissing" -> map_order_cancel_missing(event)
      [] event.kind = "OrderExpire" -> map_order_expire(event, overflow_checks)
      [] event.kind = "OrderCreate" -> map_order_create(program_data, event)
      [] event.kind = "FundingPayment" -> map_funding_payment(event)

\* a subscription task: its sub_account_id, its position, whether its event
\* stream is open, the raw events it has read, the message it is sending,
\* whether that send found the channel full, whether a send of it has failed
NoTaskYet ==
    [sub_account_id |-> 0, pc |-> "none", stream_open |-> FALSE, n |-> 0,
     msg |-> NoMessage, send_pending |-> FALSE, send_failed |-> FALSE]
AbortedTask == [NoTaskYet EXCEPT !.pc = "aborted"]
SpawnedTask(id) ==
    [NoTaskYet EXCEPT !.sub_account_id = id, !.pc = "recv", !.stream_open = TRUE]

\* a Ws connection just accepted, its client about to send `frames` frames
\* and its event streams to yield `events` raw events
WsAccepted(frames, events) ==
    /\ ws_pc = "read"
    /\ ws_req = NoWsRequest
    /\ frames_left = frames
    /\ locked = FALSE
    /\ subscriptions = [id \in SubIds |-> 0]
    /\ sub_tasks = [t \in TaskIds |-> NoTaskYet]
    /\ events_left = events
    /\ message_queue = <<>>
    /\ message_rx_open = TRUE
    /\ writer_pc = "recv"
    /\ ws_out = <<>>
    /\ unsubscribed = {}

\* no function is applied on its own
NoCall == [fn |-> "none"]
NoCalls == call = NoCall /\ ret = <<>>

Init ==
    /\ wallet_read_only \in BOOLEAN
    /\ extra_rpcs \in {1..n : n \in 0..MaxExtraRpcs}
    /\ http_pc = "idle"
    /\ req = NoRequest
    /\ build_res = NoResult
    /\ tx = <<>>
    /\ primary_res = NoSend
    /\ response = NoResponse
    /\ sent = ZeroSent
    /\ task_pc = "idle"
    /\ elapsed = 0
    /\ sleep_left = 0
    /\ round_done = <<>>
    /\ absorbed = {}
    /\ last_poll = "none"
    /\ confirmed = FALSE
    /\ WsAccepted(0, 0)
    /\ NoCalls

(***************************************************************************)
(* The HTTP handler: cancel_orders / modify_orders, then send_tx           *)
(***************************************************************************)
\* the handler ends with `result`: handle_result turns it into the response
Respond(result) ==
    /\ response' = handle_result(result)
    /\ http_pc' = "done"

\* a write request arrives (DELETE /orders, PATCH /orders)
Receive(r) ==
    /\ http_pc = "idle"
    /\ req' = r
    /\ http_pc' = "get_user_account"
    /\ UNCHANGED <<fn_vars, ws_vars, cfg_vars, build_res, tx, primary_res, response, sent, task_vars>>

\* self.client.get_user_account(&sub_account).await? fails
GetUserAccountErr ==
    /\ http_pc = "get_user_account"
    /\ Respond(Err(SdkErr("get_user_account failed")))
    /\ UNCHANGED <<fn_vars, ws_vars, cfg_vars, req, build_res, tx, primary_res, sent, task_vars>>

\* get_user_account succeeds; the instructions are built; a BadRequest of
\* the builder ends the request
GetUserAccountOk ==
    /\ http_pc = "get_user_account"
    /\ build_res' = BuildTx(req)
    /\ IF build_res'.ok
       THEN /\ http_pc' = "get_latest_blockhash"
            /\ UNCHANGED response
       ELSE Respond(build_res')
    /\ UNCHANGED <<fn_vars, ws_vars, cfg_vars, req, tx, primary_res, sent, task_vars>>

\* send_tx: self.client.get_latest_blockhash().await? fails
GetLatestBlockhashErr ==
    /\ http_pc = "get_latest_blockhash"
    /\ Respond(Err(SdkErr("get_latest_blockhash failed")))
    /\ UNCHANGED <<fn_vars, ws_vars, cfg_vars, req, build_res, tx, primary_res, sent, task_vars>>

\* GetLatestBlockhashOk that goes on to send whatever the wallet
GetLatestBlockhashOk_unsigned ==
    /\ http_pc = "get_latest_blockhash"
    /\ tx' = build_res.val
    /\ http_pc' = "send_transaction"
    /\ UNCHANGED response
    /\ UNCHANGED <<fn_vars, ws_vars, cfg_vars, req, build_res, primary_res, sent, task_vars>>

\* send_tx: the blockhash is fetched and self.wallet.sign_tx(..)? signs,
\* or fails for a wallet without signing key
GetLatestBlockhashOk ==
    /\ http_pc = "get_latest_blockhash"
    /\ IF wallet_read_only
       THEN /\ Respond(Err(SdkErr("signer unavailable")))
            /\ UNCHANGED tx
       ELSE /\ tx' = build_res.val
            /\ http_pc' = "send_transaction"
            /\ UNCHANGED response
    /\ UNCHANGED <<fn_vars, ws_vars, cfg_vars, req, build_res, primary_res, sent, task_vars>>

\* SendPrimaryErr that still spawns the confirmer when the error carries no
\* Anchor code (a transport failure a retry might fix)
SendPrimaryErr_retry(e) ==
    /\ http_pc = "send_transaction"
    /\ sent' = [sent EXCEPT ![PrimaryRpc] = @ + 1]
    /\ primary_res' = SendErr(e)
    /\ task_pc' = IF e.some THEN task_pc ELSE "spawned"
    /\ Respond(Err(handle_tx_err(e)))
    /\ UNCHANGED <<fn_vars, ws_vars, cfg_vars, req, build_res, tx, elapsed, sleep_left, round_done, absorbed,
                   last_poll, confirmed>>

\* SendPrimaryErr that falls back to the secondary RPCs when the error
\* carries no Anchor code
SendPrimaryErr_fallback(e) ==
    /\ http_pc = "send_transaction"
    /\ sent' = [r \in RpcIds |->
                   IF r = PrimaryRpc \/ (~e.some /\ r \in extra_rpcs) THEN sent[r] + 1
                   ELSE sent[r]]
    /\ primary_res' = SendErr(e)
    /\ Respond(Err(handle_tx_err(e)))
    /\ UNCHANGED <<fn_vars, ws_vars, cfg_vars, req, build_res, tx, task_vars>>

\* send_tx: the primary RPC rejects the first send; handle_tx_err
SendPrimaryErr(e) ==
    /\ http_pc = "send_transaction"
    /\ sent' = [sent EXCEPT ![PrimaryRpc] = @ + 1]
    /\ primary_res' = SendErr(e)
    /\ Respond(Err(handle_tx_err(e)))
    /\ UNCHANGED <<fn_vars, ws_vars, cfg_vars, req, build_res, tx, task_vars>>

\* send_tx: the primary RPC accepts the first send; the confirmer task is
\* spawned (tokio::spawn) and the signature returned
SendPrimaryOk ==
    /\ http_pc = "send_transaction"
    /\ sent' = [sent EXCEPT ![PrimaryRpc] = @ + 1]
    /\ primary_res' = SendOk
    /\ task_pc' = "spawned"
    /\ Respond(Ok(Signature))
    /\ UNCHANGED <<fn_vars, ws_vars, cfg_vars, req, build_res, tx, elapsed, sleep_left, round_done, absorbed,
                   last_poll, confirmed>>

(***************************************************************************)
(* The confirmer task                                                      *)
(***************************************************************************)
\* Duration::from_secs(ttl.unwrap_or(DEFAULT_TX_TTL)), in ticks
TtlTicks(ttl) ==
    ((IF ttl.some THEN ttl.v ELSE DEFAULT_TX_TTL) * MsPerSec) \div TickMs

\* while condition off by one: `x <= ttl`
TtlNotReached_inclusive(el, ttl) == el >= 0 /\ el <= TtlTicks(ttl)

\* the while condition: now.duration_since(start).is_ok_and(|x| x < ttl)
TtlNotReached(el, ttl) == el >= 0 /\ el < TtlTicks(ttl)

\* the RPCs a round sends to: every secondary and the primary
Recipients == extra_rpcs \cup {PrimaryRpc}
Range(s) == {s[i] : i \in DOMAIN s}
Pending == Recipients \ Range(round_done)

PollOutcomes == {"rpc_error", "not_found", "tx_error", "confirmed"}

\* the task starts running: let start = SystemTime::now()
TaskStart ==
    /\ task_pc = "spawned"
    /\ task_pc' = "loop"
    /\ elapsed' = 0
    /\ UNCHANGED <<fn_vars, ws_vars, cfg_vars, http_vars, sent, sleep_left, round_done, absorbed, last_poll, confirmed>>

\* the loop condition holds: one send per RPC is pushed onto futs
RoundStart ==
    /\ task_pc = "loop"
    /\ TtlNotReached(elapsed, req.ttl)
    /\ sent' = [r \in RpcIds |-> IF r \in Recipients THEN sent[r] + 1 ELSE sent[r]]
    /\ round_done' = <<>>
    /\ last_poll' = "none"
    /\ task_pc' = "sending"
    /\ UNCHANGED <<fn_vars, ws_vars, cfg_vars, http_vars, elapsed, sleep_left, absorbed, confirmed>>

\* TtlExpire that surfaces the expiry in the HTTP response
TtlExpire_surfaced ==
    /\ task_pc = "loop"
    /\ ~TtlNotReached(elapsed, req.ttl)
    /\ task_pc' = "done"
    /\ response' = HttpError(500, 500, "tx was not confirmed")
    /\ UNCHANGED <<fn_vars, ws_vars, cfg_vars, http_pc, req, build_res, tx, primary_res, sent, elapsed,
                   sleep_left, round_done, absorbed, last_poll, confirmed>>

\* the loop condition fails: the task ends, the tx not confirmed
TtlExpire ==
    /\ task_pc = "loop"
    /\ ~TtlNotReached(elapsed, req.ttl)
    /\ task_pc' = "done"
    /\ UNCHANGED <<fn_vars, ws_vars, cfg_vars, http_vars, sent, elapsed, sleep_left, round_done, absorbed,
                   last_poll, confirmed>>

\* SendComplete that ends the task on a failed send (`?` on the result)
SendComplete_abort(r, ok) ==
    /\ task_pc = "sending"
    /\ r \in Pending
    /\ absorbed' = IF ok THEN absorbed ELSE absorbed \cup {r}
    /\ IF ~ok
       THEN /\ round_done' = <<>>
            /\ task_pc' = "done"
            /\ UNCHANGED sleep_left
       ELSE IF Pending = {r}
       THEN /\ round_done' = <<>>
            /\ task_pc' = "sleep"
            /\ sleep_left' = SleepTicks
       ELSE /\ round_done' = Append(round_done, r)
            /\ UNCHANGED <<task_pc, sleep_left>>
    /\ UNCHANGED <<fn_vars, ws_vars, cfg_vars, http_vars, sent, elapsed, last_poll, confirmed>>

\* futs.next().await yields the result of one send, in any order; the
\* result, Ok or Err, is only logged; after the last one the task sleeps
SendComplete(r, ok) ==
    /\ task_pc = "sending"
    /\ r \in Pending
    /\ absorbed' = IF ok THEN absorbed ELSE absorbed \cup {r}
    /\ IF Pending = {r}
       THEN /\ round_done' = <<>>
            /\ task_pc' = "sleep"
            /\ sleep_left' = SleepTicks
       ELSE /\ round_done' = Append(round_done, r)
            /\ UNCHANGED <<task_pc, sleep_left>>
    /\ UNCHANGED <<fn_vars, ws_vars, cfg_vars, http_vars, sent, elapsed, last_poll, confirmed>>

\* the sleep is over
Wake ==
    /\ task_pc = "sleep"
    /\ sleep_left = 0
    /\ task_pc' = "poll"
    /\ UNCHANGED <<fn_vars, ws_vars, cfg_vars, http_vars, sent, elapsed, sleep_left, round_done, absorbed,
                   last_poll, confirmed>>

\* Poll that gives up when the status request itself fails
Poll_break_on_rpc_error(outcome) ==
    /\ task_pc = "poll"
    /\ last_poll' = outcome
    /\ IF outcome = "confirmed"
       THEN /\ confirmed' = TRUE
            /\ task_pc' = "done"
       ELSE /\ task_pc' = IF outcome = "rpc_error" THEN "done" ELSE "loop"
            /\ UNCHANGED confirmed
    /\ UNCHANGED <<fn_vars, ws_vars, cfg_vars, http_vars, sent, elapsed, sleep_left, round_done, absorbed>>

\* Poll that breaks on any known signature: `if let Ok(Some(_))`
Poll_any_status(outcome) ==
    /\ task_pc = "poll"
    /\ last_poll' = outcome
    /\ IF outcome \in {"confirmed", "tx_error"}
       THEN /\ confirmed' = TRUE
            /\ task_pc' = "done"
       ELSE /\ task_pc' = "loop"
            /\ UNCHANGED confirmed
    /\ UNCHANGED <<fn_vars, ws_vars, cfg_vars, http_vars, sent, elapsed, sleep_left, round_done, absorbed>>

\* primary_rpc.get_signature_status(&tx_signature).await returns:
\* only Ok(Some(Ok(()))) sets confirmed and breaks
Poll(outcome) ==
    /\ task_pc = "poll"
    /\ last_poll' = outcome
    /\ IF outcome = "confirmed"
       THEN /\ confirmed' = TRUE
            /\ task_pc' = "done"
       ELSE /\ task_pc' = "loop"
            /\ UNCHANGED confirmed
    /\ UNCHANGED <<fn_vars, ws_vars, cfg_vars, http_vars, sent, elapsed, sleep_left, round_done, absorbed>>

\* one tick of time passes while the task runs
Tick ==
    /\ task_pc \in {"loop", "sending", "sleep", "poll"}
    /\ elapsed < TtlTicks(req.ttl) \/ sleep_left > 0
    /\ elapsed' = IF elapsed < TtlTicks(req.ttl) THEN elapsed + 1 ELSE elapsed
    /\ sleep_left' = IF sleep_left > 0 THEN sleep_left - 1 ELSE 0
    /\ UNCHANGED <<fn_vars, ws_vars, cfg_vars, http_vars, sent, task_pc, round_done, absorbed, last_poll, confirmed>>

\* the steps of a received request and of its confirmer task
Step ==
    \/ GetUserAccountErr
    \/ GetUserAccountOk
    \/ GetLatestBlockhashErr
    \/ GetLatestBlockhashOk
    \/ \E e \in SendErrors : SendPrimaryErr(e)
    \/ SendPrimaryOk
    \/ TaskStart
    \/ RoundStart
    \/ TtlExpire
    \/ \E r \in RpcIds, ok \in BOOLEAN : SendComplete(r, ok)
    \/ Wake
    \/ \E o \in PollOutcomes : Poll(o)
    \/ Tick

Next ==
    \/ \E r \in Requests : Receive(r)
    \/ Step

Spec == Init /\ [][Next]_vars

BuildNext ==
    \/ \E r \in BuildRequests : Receive(r)
    \/ Step

BuildSpec == Init /\ [][BuildNext]_vars

\* every step of the task is eventually taken (the runtime schedules it, RPC
\* calls and timers return) and time passes
TaskStep ==
    \/ TaskStart
    \/ RoundStart
    \/ TtlExpire
    \/ \E r \in RpcIds, ok \in BOOLEAN : SendComplete(r, ok)
    \/ Wake
    \/ \E o \in PollOutcomes : Poll(o)
FairSpec == Spec /\ WF_vars(TaskStep) /\ WF_vars(Tick)

(***************************************************************************)
(* One Ws connection: accept_connection, its writer task and its           *)
(* subscription tasks                                                      *)
(***************************************************************************)
\* the variables of the HTTP side
tx_vars == <<cfg_vars, http_vars, sent, task_vars>>

\* a subscription task that has not been aborted
Alive(t) == sub_tasks[t].pc \in {"recv", "send", "remove"}
\* the smallest task not yet spawned, 0 when there is none
NextTask ==
    IF \E t \in TaskIds : sub_tasks[t].pc = "none"
    THEN CHOOSE t \in TaskIds :
            /\ sub_tasks[t].pc = "none"
            /\ \A u \in TaskIds : sub_tasks[u].pc = "none" => t <= u
    ELSE 0

\* message_tx.send(msg).await of the handler: completes when the channel
\* has room
HandlerSend(msg) ==
    /\ message_rx_open
    /\ Len(message_queue) < QueueCapacity
    /\ message_queue' = Append(message_queue, msg)

\* WsSubscribe without the contains_key test: the stream is opened and the
\* task inserted whether or not the id has an entry
WsSubscribe_replace(id) ==
    /\ ws_pc = "read"
    /\ frames_left > 0
    /\ NextTask # 0
    /\ frames_left' = frames_left - 1
    /\ ws_req' = WsRequest("subscribe", id)
    /\ locked' = TRUE
    /\ ws_pc' = "subscribe"
    /\ UNCHANGED <<fn_vars, tx_vars, subscriptions, sub_tasks, events_left, message_queue,
                   message_rx_open, writer_pc, ws_out, unsubscribed>>

\* ws_in yields a subscribe request: the handler locks `subscriptions`; with
\* an entry for the id it goes on to send the error frame, else to open the
\* event stream (the lock is held meanwhile)
WsSubscribe(id) ==
    /\ ws_pc = "read"
    /\ frames_left > 0
    /\ NextTask # 0
    /\ frames_left' = frames_left - 1
    /\ ws_req' = WsRequest("subscribe", id)
    /\ locked' = TRUE
    /\ ws_pc' = IF subscriptions[id] # 0 THEN "send_exists" ELSE "subscribe"
    /\ UNCHANGED <<fn_vars, tx_vars, subscriptions, sub_tasks, events_left, message_queue,
                   message_rx_open, writer_pc, ws_out, unsubscribed>>

\* the "subscription already exists" frame is put on the channel; `continue`
WsSendExists ==
    /\ ws_pc = "send_exists"
    /\ HandlerSend(ErrorFrame("subscription already exists"))
    /\ locked' = FALSE
    /\ ws_req' = NoWsRequest
    /\ ws_pc' = "read"
    /\ UNCHANGED <<fn_vars, tx_vars, frames_left, subscriptions, sub_tasks, events_left,
                   message_rx_open, writer_pc, ws_out, unsubscribed>>

\* EventSubscriber::subscribe(..).await returns the stream: the task is
\* spawned and inserted in the map
WsStreamOk ==
    /\ ws_pc = "subscribe"
    /\ sub_tasks' = [sub_tasks EXCEPT ![NextTask] = SpawnedTask(ws_req.sub_account_id)]
    /\ subscriptions' = [subscriptions EXCEPT ![ws_req.sub_account_id] = NextTask]
    /\ unsubscribed' = unsubscribed \ {ws_req.sub_account_id}
    /\ locked' = FALSE
    /\ ws_req' = NoWsRequest
    /\ ws_pc' = "read"
    /\ UNCHANGED <<fn_vars, tx_vars, frames_left, events_left, message_queue,
                   message_rx_open, writer_pc, ws_out>>

\* EventSubscriber::subscribe(..).await fails: .expect("ws connects") panics
\* in the handler (the lock guard is dropped by the unwinding)
WsStreamErr ==
    /\ ws_pc = "subscribe"
    /\ locked' = FALSE
    /\ ws_pc' = "panicked"
    /\ UNCHANGED <<fn_vars, tx_vars, ws_req, frames_left, subscriptions, sub_tasks, events_left,
                   message_queue, message_rx_open, writer_pc, ws_out, unsubscribed>>

\* ws_in yields an unsubscribe request: the entry, if any, is removed and
\* its task aborted
WsUnsubscribe(id) ==
    /\ ws_pc = "read"
    /\ frames_left > 0
    /\ frames_left' = frames_left - 1
    /\ ws_req' = WsRequest("unsubscribe", id)
    /\ unsubscribed' = unsubscribed \cup {id}
    /\ IF subscriptions[id] # 0
       THEN /\ subscriptions' = [subscriptions EXCEPT ![id] = 0]
            /\ sub_tasks' = [sub_tasks EXCEPT ![subscriptions[id]] = AbortedTask]
       ELSE UNCHANGED <<subscriptions, sub_tasks>>
    /\ UNCHANGED <<fn_vars, tx_vars, ws_pc, locked, events_left, message_queue, message_rx_open,
                   writer_pc, ws_out>>

\* ws_in yields a text frame that is no WsRequest
WsParseError ==
    /\ ws_pc = "read"
    /\ frames_left > 0
    /\ frames_left' = frames_left - 1
    /\ ws_pc' = "send_parse_error"
    /\ UNCHANGED <<fn_vars, tx_vars, ws_req, locked, subscriptions, sub_tasks, events_left, message_queue,
                   message_rx_open, writer_pc, ws_out, unsubscribed>>

\* WsSendParseError that ends the connection after the error frame
WsSendParseError_break ==
    /\ ws_pc = "send_parse_error"
    /\ HandlerSend(ErrorFrame("not a request"))
    /\ ws_pc' = "returned"
    /\ UNCHANGED <<fn_vars, tx_vars, ws_req, frames_left, locked, subscriptions, sub_tasks,
                   events_left, message_rx_open, writer_pc, ws_out, unsubscribed>>

\* the parse error frame is put on the channel
WsSendParseError ==
    /\ ws_pc = "send_parse_error"
    /\ HandlerSend(ErrorFrame("not a request"))
    /\ ws_pc' = "read"
    /\ UNCHANGED <<fn_vars, tx_vars, ws_req, frames_left, locked, subscriptions, sub_tasks,
                   events_left, message_rx_open, writer_pc, ws_out, unsubscribed>>

\* ws_in yields a Close frame: it is passed to the writer, then `break`
WsClose ==
    /\ ws_pc = "read"
    /\ frames_left > 0
    /\ frames_left' = frames_left - 1
    /\ ws_pc' = "send_close"
    /\ UNCHANGED <<fn_vars, tx_vars, ws_req, locked, subscriptions, sub_tasks, events_left, message_queue,
                   message_rx_open, writer_pc, ws_out, unsubscribed>>

\* let _ = message_tx.send(Message::Close(frame)).await; break
WsSendClose ==
    /\ ws_pc = "send_close"
    /\ HandlerSend(CloseFrame)
    /\ ws_pc' = "returned"
    /\ UNCHANGED <<fn_vars, tx_vars, ws_req, frames_left, locked, subscriptions, sub_tasks,
                   events_left, message_rx_open, writer_pc, ws_out, unsubscribed>>

\* ws_in yields a frame that is neither text nor Close: `_ => ()`
WsOtherFrame ==
    /\ ws_pc = "read"
    /\ frames_left > 0
    /\ frames_left' = frames_left - 1
    /\ UNCHANGED <<fn_vars, tx_vars, ws_pc, ws_req, locked, subscriptions, sub_tasks, events_left,
                   message_queue, message_rx_open, writer_pc, ws_out, unsubscribed>>

\* ws_in ends or yields an error: the `while let Some(Ok(msg))` loop ends
WsEndOfInput ==
    /\ ws_pc = "read"
    /\ ws_pc' = "returned"
    /\ UNCHANGED <<fn_vars, tx_vars, ws_req, frames_left, locked, subscriptions, sub_tasks,
                   events_left, message_queue, message_rx_open, writer_pc, ws_out,
                   unsubscribed>>

\* event_stream.next().await yields a raw event: mapped to None it is
\* skipped, else the task goes on to send its WsEvent; a panic of the
\* mapping ends the task
TaskEvent(t, ev) ==
    /\ sub_tasks[t].pc = "recv"
    /\ sub_tasks[t].stream_open
    /\ events_left > 0
    /\ events_left' = events_left - 1
    /\ LET result == map_drift_event_for_account(ProgramData, ev, Subscriber, FALSE)
           mapped == result.v
           n == sub_tasks[t].n + 1
       IN  sub_tasks' =
              [sub_tasks EXCEPT ![t] =
                  IF result.panicked
                  THEN [@ EXCEPT !.n = n, !.pc = "panicked", !.stream_open = FALSE]
                  ELSE IF mapped.data.some
                  THEN [@ EXCEPT !.n = n, !.pc = "send",
                                 !.msg = WsEvent(sub_tasks[t].sub_account_id, t, n,
                                                 mapped.channel)]
                  ELSE [@ EXCEPT !.n = n]]
    /\ UNCHANGED <<fn_vars, tx_vars, ws_pc, ws_req, frames_left, locked, subscriptions,
                   message_queue, message_rx_open, writer_pc, ws_out, unsubscribed>>

\* after the inner loop: subscription_map.lock().await.remove(&sub_account_id)
\* and the outer `loop` starts over with the same event_stream; while the
\* handler holds the lock the task waits for it
RemoveAndLoop(t, task) ==
    IF locked
    THEN /\ sub_tasks' = [sub_tasks EXCEPT ![t] = [task EXCEPT !.pc = "remove"]]
         /\ UNCHANGED subscriptions
    ELSE /\ sub_tasks' = [sub_tasks EXCEPT ![t] = [task EXCEPT !.pc = "recv"]]
         /\ subscriptions' = [subscriptions EXCEPT ![task.sub_account_id] = 0]

\* event_stream.next().await yields None (the stream has ended, now or
\* before): the inner loop ends
TaskStreamEnd(t) ==
    /\ sub_tasks[t].pc = "recv"
    /\ RemoveAndLoop(t, [sub_tasks[t] EXCEPT !.stream_open = FALSE])
    /\ UNCHANGED <<fn_vars, tx_vars, ws_pc, ws_req, frames_left, locked, events_left,
                   message_queue, message_rx_open, writer_pc, ws_out, unsubscribed>>

\* message_tx.send(..).await finds the channel full: the task waits
TaskSendPending(t) ==
    /\ sub_tasks[t].pc = "send"
    /\ ~sub_tasks[t].send_pending
    /\ message_rx_open
    /\ Len(message_queue) >= QueueCapacity
    /\ sub_tasks' = [sub_tasks EXCEPT ![t] = [@ EXCEPT !.send_pending = TRUE]]
    /\ UNCHANGED <<fn_vars, tx_vars, ws_pc, ws_req, frames_left, locked, subscriptions,
                   events_left, message_queue, message_rx_open, writer_pc, ws_out,
                   unsubscribed>>

\* TaskSend on a channel without capacity limit
TaskSend_unbounded(t) ==
    /\ sub_tasks[t].pc = "send"
    /\ message_rx_open
    /\ message_queue' = Append(message_queue, sub_tasks[t].msg)
    /\ sub_tasks' = [sub_tasks EXCEPT ![t] = [@ EXCEPT !.pc = "recv", !.msg = NoMessage,
                                                        !.send_pending = FALSE]]
    /\ UNCHANGED <<fn_vars, tx_vars, ws_pc, ws_req, frames_left, locked, subscriptions,
                   events_left, message_rx_open, writer_pc, ws_out, unsubscribed>>

\* TaskSend that puts the message at the front of the channel
TaskSend_front(t) ==
    /\ sub_tasks[t].pc = "send"
    /\ message_rx_open
    /\ Len(message_queue) < QueueCapacity
    /\ message_queue' = <<sub_tasks[t].msg>> \o message_queue
    /\ sub_tasks' = [sub_tasks EXCEPT ![t] = [@ EXCEPT !.pc = "recv", !.msg = NoMessage,
                                                        !.send_pending = FALSE]]
    /\ UNCHANGED <<fn_vars, tx_vars, ws_pc, ws_req, frames_left, locked, subscriptions,
                   events_left, message_rx_open, writer_pc, ws_out, unsubscribed>>

\* message_tx.send(..).await completes: the channel has room
TaskSend(t) ==
    /\ sub_tasks[t].pc = "send"
    /\ message_rx_open
    /\ Len(message_queue) < QueueCapacity
    /\ message_queue' = Append(message_queue, sub_tasks[t].msg)
    /\ sub_tasks' = [sub_tasks EXCEPT ![t] = [@ EXCEPT !.pc = "recv", !.msg = NoMessage,
                                                        !.send_pending = FALSE]]
    /\ UNCHANGED <<fn_vars, tx_vars, ws_pc, ws_req, frames_left, locked, subscriptions,
                   events_left, message_rx_open, writer_pc, ws_out, unsubscribed>>

\* message_tx.send(..).await fails (the writer has dropped message_rx):
\* `break` leaves the inner loop
TaskSendErr(t) ==
    /\ sub_tasks[t].pc = "send"
    /\ ~message_rx_open
    /\ RemoveAndLoop(t, [sub_tasks[t] EXCEPT !.msg = NoMessage, !.send_pending = FALSE,
                                             !.send_failed = TRUE])
    /\ UNCHANGED <<fn_vars, tx_vars, ws_pc, ws_req, frames_left, locked, events_left,
                   message_queue, message_rx_open, writer_pc, ws_out, unsubscribed>>

\* the task gets the lock it waited for
TaskRemove(t) ==
    /\ sub_tasks[t].pc = "remove"
    /\ ~locked
    /\ RemoveAndLoop(t, sub_tasks[t])
    /\ UNCHANGED <<fn_vars, tx_vars, ws_pc, ws_req, frames_left, locked, events_left,
                   message_queue, message_rx_open, writer_pc, ws_out, unsubscribed>>

\* the writer takes the next message and writes it to the socket; after a
\* Close frame it closes the socket and ends, dropping message_rx
WriterTake ==
    /\ writer_pc = "recv"
    /\ message_queue # <<>>
    /\ ws_out' = Append(ws_out, Head(message_queue))
    /\ IF Head(message_queue).kind = "close"
       THEN /\ writer_pc' = "done"
            /\ message_rx_open' = FALSE
            /\ message_queue' = <<>>
       ELSE /\ message_queue' = Tail(message_queue)
            /\ UNCHANGED <<writer_pc, message_rx_open>>
    /\ UNCHANGED <<fn_vars, tx_vars, ws_pc, ws_req, frames_left, locked, subscriptions,
                   sub_tasks, events_left, unsubscribed>>

\* message_rx.recv().await yields None: every message_tx has been dropped
\* (the handler is over and no task holds a clone)
WriterEnd ==
    /\ writer_pc = "recv"
    /\ message_queue = <<>>
    /\ ws_pc \in {"returned", "panicked"}
    /\ \A t \in TaskIds : ~Alive(t)
    /\ writer_pc' = "done"
    /\ message_rx_open' = FALSE
    /\ UNCHANGED <<fn_vars, tx_vars, ws_pc, ws_req, frames_left, locked, subscriptions,
                   sub_tasks, events_left, message_queue, ws_out, unsubscribed>>

\* the steps of the connection handler
HandlerStep ==
    \/ \E id \in SubIds : WsSubscribe(id)
    \/ WsSendExists
    \/ WsStreamOk
    \/ WsStreamErr
    \/ \E id \in SubIds : WsUnsubscribe(id)
    \/ WsParseError
    \/ WsSendParseError
    \/ WsClose
    \/ WsSendClose
    \/ WsOtherFrame
    \/ WsEndOfInput

\* the steps of the subscription tasks
SubTaskStep ==
    \/ \E t \in TaskIds, ev \in DriftEvents : TaskEvent(t, ev)
    \/ \E t \in TaskIds : TaskStreamEnd(t)
    \/ \E t \in TaskIds : TaskSend(t)
    \/ \E t \in TaskIds : TaskSendErr(t)
    \/ \E t \in TaskIds : TaskRemove(t)

\* the HTTP side at rest
HttpIdle ==
    /\ wallet_read_only = FALSE
    /\ extra_rpcs = {}
    /\ http_pc = "idle"
    /\ req = NoRequest
    /\ build_res = NoResult
    /\ tx = <<>>
    /\ primary_res = NoSend
    /\ response = NoResponse
    /\ sent = ZeroSent
    /\ task_pc = "idle"
    /\ elapsed = 0
    /\ sleep_left = 0
    /\ round_done = <<>>
    /\ absorbed = {}
    /\ last_poll = "none"
    /\ confirmed = FALSE

WsInit == HttpIdle /\ WsAccepted(MaxFrames, MaxEvents) /\ NoCalls

WsNext ==
    \/ HandlerStep
    \/ SubTaskStep
    \/ WriterTake
    \/ WriterEnd

WsSpec == WsInit /\ [][WsNext]_vars

\* the full-channel scenario: the client subscribes once and later sends a
\* Close frame; the event stream yields more events than the channel holds,
\* every one of them an event of the subscriber
QueueEvents == {DriftEvent("OrderFill", Some(OtherAccount), Some(Subscriber))}

QueueInit ==
    HttpIdle /\ WsAccepted(MaxFrames, QueueCapacity + QueueExcess) /\ NoCalls

QueueNext ==
    \/ subscriptions[0] = 0 /\ WsSubscribe(0)
    \/ WsStreamOk
    \/ WsClose
    \/ WsSendClose
    \/ \E t \in TaskIds, ev \in QueueEvents : TaskEvent(t, ev)
    \/ \E t \in TaskIds : TaskSendPending(t)
    \/ \E t \in TaskIds : TaskSend(t)
    \/ \E t \in TaskIds : TaskSendErr(t)
    \/ WriterTake

QueueSpec == QueueInit /\ [][QueueNext]_vars

(***************************************************************************)
(* Functions applied on their own: the event mapping                       *)
(***************************************************************************)
\* a spot market the program data does not hold
UnknownSpotMarket == Market(2, "spot")
Accounts == {Subscriber, OtherAccount}
Parties == OptionOf(Accounts, "")
Sides == OptionOf({"long", "short"}, "")
\* raw fees: zero, small, and the values around the sign bit of an i64
RawFees == {0, 1, I64Max, I64Max + 1, I64Max + 2, U64Max}

\* the raw events the mapping is applied to
RawFills ==
    {[NoRawEvent EXCEPT !.kind = "OrderFill", !.maker = f.maker, !.taker = f.taker,
                        !.maker_side = f.maker_side, !.taker_side = f.taker_side,
                        !.maker_order_id = 1, !.taker_order_id = 2,
                        !.maker_fee = 0 - 1, !.taker_fee = 3,
                        !.base_asset_amount_filled = f.base,
                        !.quote_asset_amount_filled = 6,
                        !.oracle_price = 2000000, !.market = f.market] :
        f \in [maker : Parties, taker : Parties, maker_side : Sides, taker_side : Sides,
               base : {0, 3}, market : {PerpMarket, SpotMarket, UnknownSpotMarket}]}
RawCancels ==
    {[NoRawEvent EXCEPT !.kind = "OrderCancel", !.maker = maker, !.taker = taker,
                        !.maker_order_id = 1, !.taker_order_id = 2] :
        maker \in Parties, taker \in Parties}
RawExpires ==
    {[NoRawEvent EXCEPT !.kind = "OrderExpire", !.order_id = 1, !.fee = fee] :
        fee \in RawFees}
RawOthers ==
    {[NoRawEvent EXCEPT !.kind = "OrderCancelMissing", !.order_id = 1,
                        !.user_order_id = 7]}
    \cup {[NoRawEvent EXCEPT !.kind = "OrderCreate", !.order_id = 1, !.market = m] :
            m \in {PerpMarket, SpotMarket, UnknownSpotMarket}}
    \cup {[NoRawEvent EXCEPT !.kind = "FundingPayment", !.amount = a] :
            a \in {0 - 50, 0, 7}}
RawEvents == RawFills \cup RawCancels \cup RawExpires \cup RawOthers

MapCalls ==
    [fn : {"map_drift_event_for_account"}, program_data : {ProgramData},
     event : RawEvents, sub_account_address : Accounts, overflow_checks : BOOLEAN]

\* the mapping applied to one raw event for one subscriber
MapEvent ==
    /\ call.fn = "map_drift_event_for_account"
    /\ ret = <<>>
    /\ ret' = <<map_drift_event_for_account(call.program_data, call.event,
                                            call.sub_account_address,
                                            call.overflow_checks)>>
    /\ UNCHANGED <<call, tx_vars, ws_vars>>

(***************************************************************************)
(* Functions applied on their own: handle_result / handle_deser_error      *)
(***************************************************************************)
BadRequestReasons ==
    {"user ids cannot be empty", "ids cannot be empty", "userOrderId not set",
     "orderId not set", "failed to parse transaction signature"}
\* TxFailed { code: u32 }: the Anchor codes, and codes that coincide with the
\* codes of the other errors
TxFailedCodes == AnchorCodes \cup {0, 1, 400, 404, 500}
ControllerErrors ==
    {BadRequest(r) : r \in BadRequestReasons}
    \cup {TxFailed(reason, c) : reason \in {"InsufficientDeposit", "custom"},
                               c \in TxFailedCodes}
    \cup {SdkErr(r) : r \in {"rpc error", "signer error", "invalid account"}}
    \cup {TxNotFound(s) : s \in {Signature, "sig2"}}
\* a payload is any serialisable value: here a sequence of strings
GatewayResults ==
    {Ok(p) : p \in {<<Signature>>, <<>>}} \cup {Err(e) : e \in ControllerErrors}
\* serde_json::Error of a request body, as its to_string()
DeserErrors == {"EOF while parsing", "missing field", "invalid type", "unknown market type"}

ResultCalls == [fn : {"handle_result"}, result : GatewayResults]
DeserCalls == [fn : {"handle_deser_error"}, err : DeserErrors]

HandleResult ==
    /\ call.fn = "handle_result"
    /\ ret = <<>>
    /\ ret' = <<handle_result(call.result)>>
    /\ UNCHANGED <<call, tx_vars, ws_vars>>

HandleDeserError ==
    /\ call.fn = "handle_deser_error"
    /\ ret = <<>>
    /\ ret' = <<handle_deser_error(call.err)>>
    /\ UNCHANGED <<call, tx_vars, ws_vars>>

(***************************************************************************)
(* GET /transactionEvent/{tx_sig}: get_tx_events_for_subaccount_id, then   *)
(* handle_result                                                           *)
(***************************************************************************)
\* TxEventsResponse::new(events, success, error)
TxEventsResponse(events, success, error) ==
    [events |-> events, success |-> success, error |-> error]

\* the signature string of the path: whether Signature::from_str parses it
TxSigs == {[parses |-> TRUE, s |-> Signature], [parses |-> FALSE, s |-> "not a signature"]}

\* what get_transaction_with_config answers: the log lines of the transaction
\* (each as try_parse_log reads it: a raw event or nothing), or a ClientError
\* with its kind and what the SdkError made of it reports
LookupOk(logs) ==
    [ok |-> TRUE, logs |-> logs, kind |-> "", anchor |-> None(0), out_of_sol |-> FALSE,
     text |-> ""]
LookupErr(kind, anchor, out_of_sol, text) ==
    [ok |-> FALSE, logs |-> <<>>, kind |-> kind, anchor |-> anchor,
     out_of_sol |-> out_of_sol, text |-> text]
LookupErrors ==
    {LookupErr("SerdeJson", None(0), FALSE, "invalid type: null"),
     LookupErr("RpcError", Some(6002), FALSE, "rpc error"),
     LookupErr("RpcError", Some(6003), TRUE, "rpc error"),
     LookupErr("RpcError", None(0), TRUE, "rpc error"),
     LookupErr("RpcError", None(0), FALSE, "rpc error"),
     LookupErr("Reqwest", None(0), FALSE, "connection refused"),
     LookupErr("Io", None(0), FALSE, "broken pipe")}
LogLines ==
    {None(NoRawEvent),
     Some(DriftEvent("OrderFill", Some(Subscriber), Some(OtherAccount))),
     Some(DriftEvent("OrderFill", Some(OtherAccount), Some(OtherAccount))),
     Some(DriftEvent("OrderCancel", Some(OtherAccount), Some(Subscriber))),
     Some([DriftEvent("OrderFill", Some(OtherAccount), Some(Subscriber)) EXCEPT
              !.base_asset_amount_filled = 0])}
Lookups == {LookupOk(logs) : logs \in SeqsUpTo(LogLines, 2)} \cup LookupErrors

\* the events of the log lines that concern sub_account, in order
RECURSIVE CollectEvents(_, _, _, _)
CollectEvents(program_data, logs, sub_account, overflow_checks) ==
    IF logs = <<>> THEN Done(<<>>)
    ELSE LET rest == CollectEvents(program_data, Tail(logs), sub_account, overflow_checks)
             mapped == map_drift_event_for_account(program_data, Head(logs).v,
                                                   sub_account, overflow_checks)
         IN  IF ~Head(logs).some THEN rest
             ELSE IF mapped.panicked \/ rest.panicked THEN Panic(<<>>)
             ELSE IF mapped.v.data.some
             THEN Done(<<mapped.v.data.v>> \o rest.v)
             ELSE rest

\* what the handler did: whether it panicked, the RPC lookups it made, and
\* its result
Handled(lookups, result) == [panicked |-> FALSE, lookups |-> lookups, result |-> result]
HandlerPanic(lookups) == [panicked |-> TRUE, lookups |-> lookups, result |-> NoResult]

\* get_tx_events_for_subaccount_id that reports every failed lookup as not found
get_tx_events_any_error_not_found(program_data, sub_account, tx_sig, lookup, overflow_checks) ==
    IF ~tx_sig.parses
    THEN Handled(0, Err(BadRequest("failed to parse transaction signature")))
    ELSE IF lookup.ok
    THEN LET events == CollectEvents(program_data, lookup.logs, sub_account,
                                     overflow_checks)
         IN  IF events.panicked THEN HandlerPanic(1)
             ELSE Handled(1, Ok(TxEventsResponse(events.v, TRUE, None(""))))
    ELSE Handled(1, Err(TxNotFound(tx_sig.s)))
get_tx_events_for_subaccount_id(program_data, sub_account, tx_sig, lookup, overflow_checks) ==
    IF ~tx_sig.parses
    THEN Handled(0, Err(BadRequest("failed to parse transaction signature")))
    ELSE IF lookup.ok
    THEN LET events == CollectEvents(program_data, lookup.logs, sub_account,
                                     overflow_checks)
         IN  IF events.panicked THEN HandlerPanic(1)
             ELSE Handled(1, Ok(TxEventsResponse(events.v, TRUE, None(""))))
    ELSE IF lookup.kind = "SerdeJson" THEN Handled(1, Err(TxNotFound(tx_sig.s)))
    ELSE IF lookup.anchor.some
    THEN Handled(1, Ok(TxEventsResponse(<<>>, FALSE, Some("program error"))))
    ELSE IF lookup.out_of_sol
    THEN Handled(1, Ok(TxEventsResponse(<<>>, FALSE, Some("ouf of sol, top-up account"))))
    ELSE Handled(1, Ok(TxEventsResponse(<<>>, FALSE, Some(lookup.text))))

TxEventsCalls ==
    [fn : {"get_tx_events"}, program_data : {ProgramData}, sub_account : {Subscriber},
     tx_sig : TxSigs, lookup : Lookups, overflow_checks : {FALSE}]

\* get_tx_events (main.rs): the controller's answer through handle_result
GetTxEvents ==
    /\ call.fn = "get_tx_events"
    /\ ret = <<>>
    /\ LET handled == get_tx_events_for_subaccount_id(call.program_data, call.sub_account,
                                                      call.tx_sig, call.lookup,
                                                      call.overflow_checks)
       IN  ret' = <<[handled |-> handled,
                     response |-> IF handled.panicked THEN NoResponse
                                  ELSE handle_result(handled.result)]>>
    /\ UNCHANGED <<call, tx_vars, ws_vars>>

(***************************************************************************)
(* Functions applied on their own: the fixed-point conversions of          *)
(* src/src/types.rs and PlaceOrder::to_order_params                        *)
(***************************************************************************)
PRICE_PRECISION == Pow(10, PRICE_DECIMALS)

\* integer division of the machine: the quotient is truncated towards zero
TruncDiv(a, b) == IF a < 0 THEN 0 - ((0 - a) \div b) ELSE a \div b

\* scale_decimal_to_u64: |mantissa| * target / 10^scale in u128, `as u64`
scale_decimal_to_u64(x, target) ==
    as_u64((Abs(x.m) * target) \div Pow(10, x.s))

\* scale_decimal_to_i64: mantissa * target / 10^scale in i128, `as i64`
scale_decimal_to_i64(x, target) ==
    as_i64(TruncDiv(x.m * target, Pow(10, x.s)))

\* OrderParams; the fields to_order_params leaves at their default are left out
OrderParams(market, order_type, base_asset_amount, direction, price, reduce_only, post_only, user_order_id, oracle_price_offset, max_ts) ==
    [market_index |-> market.market_index, market_type |-> market.market_type,
     order_type |-> order_type, base_asset_amount |-> base_asset_amount,
     direction |-> direction, price |-> price, reduce_only |-> reduce_only,
     post_only |-> post_only, user_order_id |-> user_order_id,
     oracle_price_offset |-> oracle_price_offset, max_ts |-> max_ts]

\* oracle_price_offset.map(|x| scale_decimal_to_i64(x, PRICE_PRECISION) as i32)
OffsetParam(o) ==
    IF o.some THEN Some(as_i32(scale_decimal_to_i64(o.v, PRICE_PRECISION))) ELSE None(0)

\* to_order_params that scales the price whether or not an offset is set
to_order_params_price_kept(self, base_decimals) ==
    LET target_scale == Pow(10, base_decimals)
        base_amount == scale_decimal_to_u64(DecimalAbs(self.amount), target_scale)
        price == scale_decimal_to_u64(self.price, PRICE_PRECISION)
    IN  OrderParams(self.market, self.order_type, base_amount,
                    IF is_sign_negative(self.amount) THEN "short" ELSE "long",
                    price, self.reduce_only,
                    IF self.post_only THEN "MustPostOnly" ELSE "None",
                    self.user_order_id,
                    OffsetParam(self.oracle_price_offset),
                    self.max_ts)
\* PlaceOrder::to_order_params
to_order_params(self, base_decimals) ==
    LET target_scale == Pow(10, base_decimals)
        base_amount == scale_decimal_to_u64(DecimalAbs(self.amount), target_scale)
        price == IF ~self.oracle_price_offset.some
                 THEN scale_decimal_to_u64(self.price, PRICE_PRECISION)
                 ELSE 0
    IN  OrderParams(self.market, self.order_type, base_amount,
                    IF is_sign_negative(self.amount) THEN "short" ELSE "long",
                    price, self.reduce_only,
                    IF self.post_only THEN "MustPostOnly" ELSE "None",
                    self.user_order_id,
                    OffsetParam(self.oracle_price_offset),
                    self.max_ts)

\* the decimals the conversions are applied to
Mantissas == {k * MantissaStep : k \in 0..MaxMantissaSteps} \cup {1, 5, 12}
Scales == 0..MaxScale
UnsignedDecimals == {Decimal(m, s) : m \in Mantissas, s \in Scales}
Targets == {1, 10, 1000, PRICE_PRECISION}
ScaleCalls == [fn : {"scale_decimal_to_u64"}, x : UnsignedDecimals, target : Targets]

\* the order intents to_order_params is applied to
Amounts == {Decimal(m, s) : m \in {0 - 269, 0 - 123, 0 - 1, 0, 1, 123, 269}, s \in {0, 2}}
Prices == {DecimalZero, Decimal(421, 1), Decimal(0 - 5, 0)}
Offsets ==
    {Decimal(m, s) : m \in {0 - 84, 0 - 9, 0 - 5, 0 - 1, 0, 1, 5, 9, 84}, s \in {0, 1, 7}}
OrderIntents ==
    [market : {PerpMarket}, amount : Amounts, price : Prices, user_order_id : UserIdVals,
     order_type : {"limit"}, post_only : {FALSE}, reduce_only : {FALSE},
     oracle_price_offset : OptionOf(Offsets, DecimalZero), max_ts : {None(0)}]
BaseDecimals == {0, 3, 6}
OrderParamsCalls ==
    [fn : {"to_order_params"}, self : OrderIntents, base_decimals : BaseDecimals]

ScaleDecimalToU64 ==
    /\ call.fn = "scale_decimal_to_u64"
    /\ ret = <<>>
    /\ ret' = <<scale_decimal_to_u64(call.x, call.target)>>
    /\ UNCHANGED <<call, tx_vars, ws_vars>>

ToOrderParams ==
    /\ call.fn = "to_order_params"
    /\ ret = <<>>
    /\ ret' = <<to_order_params(call.self, call.base_decimals)>>
    /\ UNCHANGED <<call, tx_vars, ws_vars>>

(***************************************************************************)
(* Functions applied on their own: create_wallet                           *)
(***************************************************************************)
\* a wallet: how it signs, the account it acts for, and its signing key
Wallet(mode, authority, signer) == [mode |-> mode, authority |-> authority, signer |-> signer]
NoWallet == Wallet("", "", "")

\* DRIFT_GATEWAY_KEY: absent, a key that parses, or a string that does not
SecretKeys == {None(""), Some("key"), Some("not a key")}
\* Wallet::try_from_str / load_keypair_multi_format
KeyParses(secret_key) == secret_key = "key"
Pubkeys == {"pubkey"}

\* create_wallet that emulates whenever no secret key is given
create_wallet_emulate_with_delegate(secret_key, emulate, delegate) ==
    IF secret_key.some /\ ~delegate.some
    THEN IF KeyParses(secret_key.v) THEN Done(Wallet("owner", secret_key.v, secret_key.v))
         ELSE Panic(NoWallet)
    ELSE IF secret_key.some /\ delegate.some
    THEN IF KeyParses(secret_key.v) THEN Done(Wallet("delegated", delegate.v, secret_key.v))
         ELSE Panic(NoWallet)
    ELSE IF emulate.some
    THEN Done(Wallet("read_only", emulate.v, ""))
    ELSE Panic(NoWallet)
\* create_wallet: .expect("valid key") and the last arm's panic! abort startup
create_wallet(secret_key, emulate, delegate) ==
    IF secret_key.some /\ ~delegate.some
    THEN IF KeyParses(secret_key.v) THEN Done(Wallet("owner", secret_key.v, secret_key.v))
         ELSE Panic(NoWallet)
    ELSE IF secret_key.some /\ delegate.some
    THEN IF KeyParses(secret_key.v) THEN Done(Wallet("delegated", delegate.v, secret_key.v))
         ELSE Panic(NoWallet)
    ELSE IF emulate.some /\ ~delegate.some
    THEN Done(Wallet("read_only", emulate.v, ""))
    ELSE Panic(NoWallet)

WalletCalls ==
    [fn : {"create_wallet"}, secret_key : SecretKeys, emulate : OptionOf(Pubkeys, ""),
     delegate : OptionOf(Pubkeys, "")]

CreateWallet ==
    /\ call.fn = "create_wallet"
    /\ ret = <<>>
    /\ ret' = <<create_wallet(call.secret_key, call.emulate, call.delegate)>>
    /\ UNCHANGED <<call, tx_vars, ws_vars>>

(***************************************************************************)
(* Functions applied on their own: the priority fee of a built transaction *)
(***************************************************************************)
\* the write handlers of AppState, by the reason they pass to send_tx
Intents ==
    {"place_orders", "modify_orders", "cancel_orders", "cancel_and_place", "swap",
     "set_margin_ratio"}
\* ctx.cu_price (computeUnitPrice of the query) and the oracle's value
CuPrices == OptionOf({0, 5}, 0)
OracleFees == {0, 7}

\* get_priority_fee(): priority_fee_subscriber.priority_fee_nth(0.9)
get_priority_fee(oracle) == oracle

\* .with_priority_fee(ctx.cu_price.unwrap_or(pf), ctx.cu_limit)
with_priority_fee(cu_price, pf) == Some(IF cu_price.some THEN cu_price.v ELSE pf)

\* the priority-fee price of the transaction a handler builds, None when
\* the builder is never given one: set_margin_ratio calls neither
\* get_priority_fee nor with_priority_fee
TxPriorityFee(intent, cu_price, oracle) ==
    IF intent = "set_margin_ratio" THEN None(0)
    ELSE with_priority_fee(cu_price, get_priority_fee(oracle))

PriorityFeeCalls ==
    [fn : {"priority_fee"}, intent : Intents, cu_price : CuPrices, oracle : OracleFees]

BuildPriorityFee ==
    /\ call.fn = "priority_fee"
    /\ ret = <<>>
    /\ ret' = <<TxPriorityFee(call.intent, call.cu_price, call.oracle)>>
    /\ UNCHANGED <<call, tx_vars, ws_vars>>

(***************************************************************************)
(* The specification of the functions applied on their own                 *)
(***************************************************************************)
FnCalls ==
    MapCalls \cup ResultCalls \cup DeserCalls \cup TxEventsCalls \cup ScaleCalls
    \cup OrderParamsCalls \cup WalletCalls \cup PriorityFeeCalls
FnInit == HttpIdle /\ WsAccepted(0, 0) /\ call \in FnCalls /\ ret = <<>>
FnNext ==
    \/ MapEvent
    \/ HandleResult
    \/ HandleDeserError
    \/ GetTxEvents
    \/ ScaleDecimalToU64
    \/ ToOrderParams
    \/ CreateWallet
    \/ BuildPriorityFee
FnSpec == FnInit /\ [][FnNext]_vars

(***************************************************************************)
(* Properties                                                              *)
(***************************************************************************)
\* the only send made so far is the first send to the primary RPC
OnlyFirstSend == sent = [ZeroSent EXCEPT ![PrimaryRpc] = 1]
\* the confirmer task was never spawned
NoTask == task_pc = "idle"

\* C1: when the first send to the primary RPC fails with an error carrying
\* an Anchor code, the request ends with HTTP 400 whose code is the Anchor
\* code and whose reason is its name; no other send is made to any RPC and
\* no confirmer task is spawned.
C1_AnchorErrorIsTxFailed ==
    (primary_res.status = "err" /\ primary_res.err.some) =>
        /\ http_pc = "done"
        /\ response = HttpError(400, primary_res.err.v, AnchorName(primary_res.err.v))
        /\ OnlyFirstSend
        /\ NoTask

C1_Witness ==
    /\ primary_res = SendErr(Some(6003))
    /\ response.code = 6003
    /\ response.reason = "InsufficientCollateral"

\* C2: the step in which the primary RPC accepts the transaction returns
\* the signature, with the confirmer task spawned but not yet run; once a
\* response is returned no step (of the confirmer or other) changes it.
C2_ResponseNotDelayedNorChanged ==
    [][/\ (primary_res.status = "none" /\ primary_res'.status = "ok") =>
            /\ response' = HttpOk(Signature)
            /\ http_pc' = "done"
            /\ task_pc' = "spawned"
       /\ (response # NoResponse) => (response' = response)]_vars

C2_Witness ==
    /\ response = HttpOk(Signature)
    /\ task_pc = "done"
    /\ ~confirmed
    /\ sent[PrimaryRpc] > 1

\* C3: a status poll ends the confirmer exactly when it reports the
\* signature present without error; every other outcome returns to the loop
\* condition; after the confirming poll no send is made to any RPC.
C3_ExitOnFirstConfirmedPoll ==
    [][/\ (task_pc = "poll" /\ task_pc' # "poll") =>
            IF last_poll' = "confirmed"
            THEN task_pc' = "done" /\ confirmed'
            ELSE task_pc' = "loop" /\ ~confirmed'
       /\ confirmed => (sent' = sent /\ task_pc' = "done")]_vars

C3_Witness ==
    /\ confirmed
    /\ task_pc = "done"
    /\ last_poll = "confirmed"
    /\ sent[PrimaryRpc] = 3

\* the confirmer task has read `start` and has not been dropped
TaskStarted == task_pc \in {"loop", "sending", "sleep", "poll", "done"}

\* C4: every spawned confirmer task terminates; it ends only on an observed
\* confirmation or with the elapsed time at or past the ttl; and it starts a
\* re-broadcast round only while the elapsed time is below the ttl.
C4_ConfirmerTerminates ==
    /\ (task_pc = "spawned") ~> (task_pc = "done")
    /\ [](task_pc = "done" => (confirmed \/ elapsed >= TtlTicks(req.ttl)))
    /\ [][(task_pc = "loop" /\ task_pc' = "sending") =>
            elapsed < TtlTicks(req.ttl)]_vars

C4_Witness ==
    /\ task_pc = "done"
    /\ ~confirmed
    /\ ~req.ttl.some
    /\ elapsed = (DEFAULT_TX_TTL * MsPerSec) \div TickMs
    /\ sent[PrimaryRpc] > 2

\* C5 as stated: at every instant before start + ttl the task is running.
C5_AlwaysRunsToTtl ==
    (TaskStarted /\ elapsed < TtlTicks(req.ttl)) => task_pc # "done"

\* C5 (amended): the HTTP caller cannot end the task; before start + ttl the
\* task is running unless a status poll has reported the confirmation.
C5_RunsToTtlUnlessConfirmed ==
    (TaskStarted /\ elapsed < TtlTicks(req.ttl) /\ ~confirmed) => task_pc # "done"

C5_Witness ==
    /\ http_pc = "done"
    /\ response = HttpOk(Signature)
    /\ task_pc = "poll"
    /\ elapsed < TtlTicks(req.ttl)
    /\ sent[PrimaryRpc] > 2

\* C6: a re-broadcast (any send to a secondary RPC, a second send to the
\* primary) is made only after the primary RPC has accepted the first send.
C6_PrimaryAcceptsBeforeRebroadcast ==
    \A r \in RpcIds :
        sent[r] > (IF r = PrimaryRpc THEN 1 ELSE 0) => primary_res = SendOk

\* a round in which the primary's send, pushed last, completes first
C6_Witness ==
    /\ task_pc = "sending"
    /\ round_done = <<PrimaryRpc>>
    /\ Pending # {}
    /\ \A r \in Pending : sent[r] > 0

\* build_cancel_ix / build_modify_ix has been called for the request
Built == build_res # NoResult
\* the request was rejected as a bad request with `reason`, nothing sent
RejectedBadRequest(reason) ==
    /\ build_res = Err(BadRequest(reason))
    /\ http_pc = "done"
    /\ response = HttpError(400, 400, reason)
    /\ sent = ZeroSent
    /\ NoTask

\* C7: build_cancel_ix picks the instruction by key priority, for every
\* combination of present and absent fields: by market when market is set,
\* whatever user_ids and ids hold (empty lists too); else by user id when
\* user_ids is present; else by id when ids is present; else cancel all.
C7_CancelKeyPriority ==
    (Built /\ req.kind = "cancel") =>
        LET c == req.cancel IN
        /\ c.market.some =>
              build_res = Ok(<<Ix("cancel_orders", c.market.v, <<>>)>>)
        /\ (~c.market.some /\ c.user_ids.some /\ build_res.ok) =>
              build_res = Ok(<<Ix("cancel_orders_by_user_id", PerpMarket, c.user_ids.v)>>)
        /\ (~c.market.some /\ ~c.user_ids.some /\ c.ids.some /\ build_res.ok) =>
              build_res = Ok(<<Ix("cancel_orders_by_id", PerpMarket, c.ids.v)>>)
        /\ (~c.market.some /\ ~c.user_ids.some /\ ~c.ids.some) =>
              build_res = Ok(<<Ix("cancel_all_orders", PerpMarket, <<>>)>>)

\* market, user_ids and ids all set: the cancel by market was sent
C7_Witness ==
    /\ req.kind = "cancel"
    /\ req.cancel.market = Some(SpotMarket)
    /\ req.cancel.user_ids = Some(<<7>>)
    /\ req.cancel.ids = Some(<<42>>)
    /\ tx = <<Ix("cancel_orders", SpotMarket, <<>>)>>
    /\ response = HttpOk(Signature)

EmptyUserIds(c) == c.user_ids.some /\ c.user_ids.v = <<>>
EmptyIds(c) == c.ids.some /\ c.ids.v = <<>>

\* C8 as stated: every cancel request with user_ids present but empty, or
\* ids present but empty, is rejected as a bad request and nothing is sent.
C8_EveryEmptyListRejected ==
    (Built /\ req.kind = "cancel" /\ (EmptyUserIds(req.cancel) \/ EmptyIds(req.cancel))) =>
        \/ RejectedBadRequest("user ids cannot be empty")
        \/ RejectedBadRequest("ids cannot be empty")

\* C8 (amended): an empty user_ids is rejected when market is absent, an
\* empty ids when market and user_ids are absent; no transaction is sent for
\* such a request.  An empty list behind a key of higher priority is ignored.
C8_EmptyListRejectedAtItsPriority ==
    req.kind = "cancel" =>
        LET c == req.cancel IN
        /\ (~c.market.some /\ EmptyUserIds(c)) =>
              /\ sent = ZeroSent /\ NoTask
              /\ Built => RejectedBadRequest("user ids cannot be empty")
        /\ (~c.market.some /\ ~c.user_ids.some /\ EmptyIds(c)) =>
              /\ sent = ZeroSent /\ NoTask
              /\ Built => RejectedBadRequest("ids cannot be empty")
        /\ (Built /\ (c.market.some \/ (c.user_ids.some /\ ~EmptyUserIds(c)))) =>
              build_res.ok

C8_Witness ==
    /\ req.kind = "cancel"
    /\ req.cancel = [DefaultCancel EXCEPT !.ids = Some(<<>>)]
    /\ response = HttpError(400, 400, "ids cannot be empty")

\* C9 as stated: in a modify batch whose first intent has user_order_id > 0,
\* an intent with user_order_id absent or zero fails the request with
\* BadRequest "userOrderId not set" and nothing is sent.
C9_ZeroOrAbsentUserOrderIdRejected ==
    (/\ Built /\ req.kind = "modify" /\ req.modify # <<>>
     /\ ByUserOrderIds(req.modify)
     /\ \E i \in DOMAIN req.modify :
            \/ ~req.modify[i].user_order_id.some
            \/ req.modify[i].user_order_id.v = 0)
        => RejectedBadRequest("userOrderId not set")

CancelPart == build_cancel_ix(<<>>, req.cancel)
ModifyPart == build_modify_ix(<<>>, req.modify)

\* C11: cancel_and_place_orders builds one transaction holding the cancel
\* instruction, then the modify instruction, then the place instruction;
\* when the cancel part or the modify part is a bad request the request is
\* rejected with that error and nothing is sent to any RPC.
C11_CancelModifyPlaceInOneTx ==
    (Built /\ req.kind = "cancel_and_place") =>
        IF ~CancelPart.ok THEN RejectedBadRequest(CancelPart.err.reason)
        ELSE IF ~ModifyPart.ok THEN RejectedBadRequest(ModifyPart.err.reason)
        ELSE /\ build_res.ok
             /\ build_res.val =
                    CancelPart.val \o ModifyPart.val
                    \o <<Ix("place_orders", PerpMarket,
                            [i \in DOMAIN req.place |-> req.place[i].user_order_id])>>
             /\ tx \in {<<>>, build_res.val}
             /\ (sent # ZeroSent) => (tx = build_res.val)

\* cancel by id, modify by order id and one place, accepted as one transaction
C11_Witness ==
    /\ req.kind = "cancel_and_place"
    /\ response = HttpOk(Signature)
    /\ sent[PrimaryRpc] = 1
    /\ tx = <<Ix("cancel_orders_by_id", PerpMarket, <<42>>),
              Ix("modify_orders", PerpMarket, <<42>>),
              Ix("place_orders", PerpMarket, <<7>>)>>

\* a cancel-and-place whose modify part is a bad request: nothing was sent
C11_WitnessRejected ==
    /\ req.kind = "cancel_and_place"
    /\ CancelPart.ok
    /\ req.place # <<>>
    /\ response = HttpError(400, 400, "orderId not set")
    /\ sent = ZeroSent

\* the frame sent for a subscribe whose id is in the map
ExistsFrame == ErrorFrame("subscription already exists")

\* C12: a subscribe request for an id that has an entry in the map is
\* answered with the error frame "bad request" / "subscription already
\* exists" and nothing else: from the request to the frame the map does not
\* change and no task is aborted, spawned or replaced.  (A request for an id
\* without entry goes on to open a stream.)
C12_DuplicateSubscribeKeepsTask ==
    [][/\ (ws_pc = "read" /\ ws_pc' \in {"send_exists", "subscribe"}) =>
            /\ ws_pc' = "send_exists" <=> subscriptions[ws_req'.sub_account_id] # 0
            /\ UNCHANGED <<subscriptions, sub_tasks, message_queue>>
       /\ (ws_pc = "send_exists") =>
            /\ subscriptions' = subscriptions
            /\ \A t \in TaskIds :
                  /\ Alive(t) <=> Alive(t)'
                  /\ sub_tasks'[t].sub_account_id = sub_tasks[t].sub_account_id
       /\ (ws_pc = "send_exists" /\ ws_pc' # "send_exists") =>
            /\ ws_pc' = "read"
            /\ message_queue' = Append(message_queue, ExistsFrame)
            /\ sub_tasks' = sub_tasks]_vars

\* the client has read the error frame and, after it, an event sent by the
\* task that the map still holds for the id
C12_Witness ==
    \E i, j \in DOMAIN ws_out :
        /\ i < j
        /\ ws_out[i] = ExistsFrame
        /\ ws_out[j].kind = "event"
        /\ subscriptions[ws_out[j].sub_account_id] = ws_out[j].task
        /\ Cardinality({t \in TaskIds : sub_tasks[t].pc # "none"}) = 1

\* the subscription tasks alive for sub_account_id `id`
AliveTasks(id) == {t \in TaskIds : Alive(t) /\ sub_tasks[t].sub_account_id = id}

\* C13 as stated: whatever subscribe requests, unsubscribe requests and
\* stream terminations have happened, at most one subscription task is
\* alive for each sub_account_id.
C13_AtMostOneTaskPerId ==
    \A id \in SubIds : Cardinality(AliveTasks(id)) <= 1

\* this step puts an event of sub_account_id `id` on the outbound channel
EventQueued(id) ==
    /\ Len(message_queue') = Len(message_queue) + 1
    /\ message_queue'[Len(message_queue')].kind = "event"
    /\ message_queue'[Len(message_queue')].sub_account_id = id

\* C14 as stated: handling an unsubscribe for an id removes the id's entry
\* and aborts the entry's task in that step; from then until a subscribe
\* for the id opens a new stream no event of the id is put on the
\* connection; and a subscribe for the id after it is not refused as
\* existing.
C14_UnsubscribeStopsEvents ==
    [][/\ (frames_left' # frames_left /\ ws_req'.method = "unsubscribe") =>
            LET id == ws_req'.sub_account_id IN
            /\ subscriptions'[id] = 0
            /\ subscriptions[id] # 0 => sub_tasks'[subscriptions[id]] = AbortedTask
       /\ \A id \in unsubscribed : ~EventQueued(id)
       /\ (ws_pc = "read" /\ ws_pc' = "send_exists") =>
            ws_req'.sub_account_id \notin unsubscribed]_vars

\* C15 as stated: once the connection handler has finished, no subscription
\* task of the connection is running.
C15_NoTaskAfterClose ==
    ws_pc = "returned" => \A t \in TaskIds : ~Alive(t)

\* C16 as stated: a task whose send onto the outbound channel has failed
\* stops: it reads no further raw event and does not run on; the connection
\* is closed.
C16_SendFailureEndsTask ==
    /\ [][\A t \in TaskIds :
            sub_tasks[t].send_failed => sub_tasks'[t].n = sub_tasks[t].n]_vars
    /\ [](\A t \in TaskIds : sub_tasks[t].send_failed => ~message_rx_open)

\* a send of task `t` that found the channel full is over in this step
PendingSendEnds(t) == sub_tasks[t].send_pending /\ ~sub_tasks'[t].send_pending

\* C17 as stated: the outbound channel never holds more than 64 messages,
\* and a send that finds it full closes the connection.
C17_OverflowClosesConnection ==
    /\ [](Len(message_queue) <= QueueCapacity)
    /\ [][\A t \in TaskIds : PendingSendEnds(t) => ~message_rx_open']_vars

\* C17 (amended): the outbound channel never holds more than 64 messages;
\* finding it full changes nothing on the connection, the sender waits; its
\* send ends by putting the message on the channel once the writer has made
\* room, or by failing once the writer has dropped the receiver.
C17_FullQueueBlocksSender ==
    /\ [](Len(message_queue) <= QueueCapacity)
    /\ [][\A t \in TaskIds :
            /\ (~sub_tasks[t].send_pending /\ sub_tasks'[t].send_pending) =>
                  /\ Len(message_queue) = QueueCapacity
                  /\ UNCHANGED <<message_queue, message_rx_open, writer_pc, ws_pc>>
            /\ PendingSendEnds(t) =>
                  \/ /\ message_rx_open'
                     /\ Len(message_queue) < QueueCapacity
                     /\ message_queue' = Append(message_queue, sub_tasks[t].msg)
                  \/ /\ ~message_rx_open
                     /\ sub_tasks'[t].send_failed
                  \/ sub_tasks'[t] = AbortedTask]_vars

\* a task waits with its message at a full channel, the connection open
C17_Witness ==
    \E t \in TaskIds :
        /\ sub_tasks[t].send_pending
        /\ sub_tasks[t].pc = "send"
        /\ Len(message_queue) = QueueCapacity
        /\ message_rx_open
        /\ writer_pc = "recv"
        /\ ws_pc = "read"

\* C18: the events of one subscription task are written to the client in
\* the order of the raw events they were mapped from (n is the position of
\* the raw event in the task's stream); the same holds on the channel.
C18_EventsInStreamOrder ==
    /\ \A i, j \in DOMAIN ws_out :
          (i < j /\ ws_out[i].kind = "event" /\ ws_out[j].kind = "event"
                 /\ ws_out[i].task = ws_out[j].task) => ws_out[i].n < ws_out[j].n
    /\ \A i, j \in DOMAIN message_queue :
          (i < j /\ message_queue[i].kind = "event" /\ message_queue[j].kind = "event"
                 /\ message_queue[i].task = message_queue[j].task)
              => message_queue[i].n < message_queue[j].n
    /\ \A i \in DOMAIN ws_out, j \in DOMAIN message_queue :
          (ws_out[i].kind = "event" /\ message_queue[j].kind = "event"
                 /\ ws_out[i].task = message_queue[j].task)
              => ws_out[i].n < message_queue[j].n

\* the first and the third raw event of a stream written in this order, the
\* second one (a fill between other accounts) dropped
C18_Witness ==
    \E i, j \in DOMAIN ws_out :
        /\ i < j
        /\ ws_out[i].kind = "event" /\ ws_out[j].kind = "event"
        /\ ws_out[i].task = ws_out[j].task
        /\ ws_out[i].n = 1
        /\ ws_out[j].n = 3

\* C19 as stated: after its event stream has terminated a subscription is
\* reconnected: the task awaits its next raw event on an open stream.
C19_ReconnectsAfterStreamEnd ==
    \A t \in TaskIds : sub_tasks[t].pc = "recv" => sub_tasks[t].stream_open

\* this step ends a subscribe without an entry for its id: the stream could
\* not be initialised
StreamInitFailed ==
    /\ ws_pc = "subscribe"
    /\ ws_pc' # "subscribe"
    /\ subscriptions'[ws_req.sub_account_id] = 0

\* C20 as stated: a subscribe whose stream cannot be initialised puts an
\* error frame on the connection, leaves no entry for the id and leaves the
\* handler reading the next request.
C20_StreamInitErrorReturned ==
    [][StreamInitFailed =>
          /\ ws_pc' = "read"
          /\ Len(message_queue') = Len(message_queue) + 1
          /\ message_queue'[Len(message_queue')].kind = "error"]_vars

\* the frame sent for a text message that is no request
ParseErrorFrame == ErrorFrame("not a request")

\* C21: a text message that does not deserialise as a request puts one
\* error frame {"error":"bad request","reason":..} on the connection and
\* nothing else: the handler changes neither the map nor a task, takes no
\* lock, closes nothing and goes back to reading the next request; while it
\* sends the frame no task is aborted and no entry is added to the map.
C21_ParseErrorFrameOnly ==
    [][/\ (ws_pc = "read" /\ ws_pc' = "send_parse_error") =>
            UNCHANGED <<subscriptions, sub_tasks, message_queue, locked,
                        message_rx_open, writer_pc>>
       /\ (ws_pc = "send_parse_error") =>
            /\ ~locked'
            /\ message_rx_open'
            /\ \A t \in TaskIds : Alive(t) <=> Alive(t)'
            /\ \A id \in SubIds : subscriptions'[id] \in {subscriptions[id], 0}
       /\ (ws_pc = "send_parse_error" /\ ws_pc' # "send_parse_error") =>
            /\ ws_pc' = "read"
            /\ message_queue' = Append(message_queue, ParseErrorFrame)
            /\ ParseErrorFrame.error = "bad request"
            /\ UNCHANGED <<subscriptions, sub_tasks, writer_pc>>]_vars

\* after the error frame the client has been sent an event of a running
\* subscription and the answer to a later (duplicate) subscribe
C21_Witness ==
    \E i, j, k \in DOMAIN ws_out :
        /\ i < j /\ i < k
        /\ ws_out[i] = ParseErrorFrame
        /\ ws_out[j] = ExistsFrame
        /\ ws_out[k].kind = "event"
        /\ ws_pc = "read"


\* the mapping has been applied; what it was applied to and what it returned
Applied == ret # <<>>
MappedTo(kind) ==
    /\ call.fn = "map_drift_event_for_account"
    /\ Applied
    /\ call.event.kind = kind
SubscriberIsMaker == call.event.maker = Some(call.sub_account_address)
SubscriberIsTaker == call.event.taker = Some(call.sub_account_address)
\* the mapping returned an event of `kind` on `channel`
Yields(channel, kind) ==
    /\ ~ret[1].panicked
    /\ ret[1].v.channel = channel
    /\ ret[1].v.data.some
    /\ ret[1].v.data.v.kind = kind
YieldsNone(channel) ==
    /\ ~ret[1].panicked
    /\ ret[1].v.channel = channel
    /\ ~ret[1].v.data.some

\* C22 as stated: a raw OrderFill yields a Fill if and only if the subscriber
\* is the fill's maker or its taker; with the subscriber neither of them the
\* mapping yields None on the fills channel.  (The mapping returns an Option,
\* so one raw fill never yields more than one Fill.)
C22_FillIffMakerOrTaker ==
    MappedTo("OrderFill") =>
        /\ Yields("fills", "Fill") <=> (SubscriberIsMaker \/ SubscriberIsTaker)
        /\ ~(SubscriberIsMaker \/ SubscriberIsTaker) => YieldsNone("fills")

\* C23: a raw OrderCancel always yields an OrderCancel on the orders channel;
\* it carries the maker's order id when the subscriber is the maker and the
\* taker's order id in every other case.
C23_CancelOrderId ==
    MappedTo("OrderCancel") =>
        /\ Yields("orders", "OrderCancel")
        /\ ret[1].v.data.v.order_id =
              IF SubscriberIsMaker THEN call.event.maker_order_id
              ELSE call.event.taker_order_id

\* a cancel mapped for its maker carries the maker's id, which differs from
\* the taker's
C23_Witness ==
    /\ MappedTo("OrderCancel")
    /\ SubscriberIsMaker
    /\ call.event.taker = Some(OtherAccount)
    /\ call.event.maker_order_id # call.event.taker_order_id
    /\ ret[1].v.data.v.order_id = call.event.maker_order_id

\* a cancel mapped for an account that is neither party carries the taker's id
C23_WitnessThirdParty ==
    /\ MappedTo("OrderCancel")
    /\ ~SubscriberIsMaker
    /\ ~SubscriberIsTaker
    /\ ret[1].v.data.v.order_id = call.event.taker_order_id

\* C24 as stated: for every raw OrderExpire, whoever the subscriber is, an
\* OrderExpire is emitted whose fee is the negation of the raw fee at price
\* precision.
C24_ExpireFeeNegated ==
    MappedTo("OrderExpire") =>
        /\ Yields("orders", "OrderExpire")
        /\ ret[1].v.data.v.fee = Decimal(0 - call.event.fee, PRICE_DECIMALS)

\* C25 as stated: the mapping returns a (channel, optional event) pair for
\* every raw event and every subscriber; it never panics.
C25_MappingTotal ==
    (call.fn = "map_drift_event_for_account" /\ Applied) => ~ret[1].panicked

\* C26: every controller error becomes a response with the error's reason and
\* a fixed status and code: BadRequest 400 / 400, TxFailed 400 / its Anchor
\* code, TxNotFound 404 / 404, Sdk 500 / 500; a body that fails to
\* deserialise becomes 400 / 400.
C26_ErrorStatusAndCode ==
    /\ (call.fn = "handle_result" /\ Applied /\ ~call.result.ok) =>
          LET e == call.result.err
              r == ret[1]
          IN  /\ r.reason = e.reason
              /\ (e.kind = "BadRequest") => (r.status = 400 /\ r.code = 400)
              /\ (e.kind = "TxFailed") => (r.status = 400 /\ r.code = e.code)
              /\ (e.kind = "TxNotFound") => (r.status = 404 /\ r.code = 404)
              /\ (e.kind = "Sdk") => (r.status = 500 /\ r.code = 500)
    /\ (call.fn = "handle_deser_error" /\ Applied) =>
          (ret[1].status = 400 /\ ret[1].code = 400 /\ ret[1].reason = call.err)

\* a TxNotFound error answered with 404 / 404
C26_Witness ==
    /\ call.fn = "handle_result"
    /\ Applied
    /\ call.result.err.kind = "TxNotFound"
    /\ ret[1].status = 404
    /\ ret[1].code = 404

\* a TxFailed error answered with 400 and its Anchor code
C26_WitnessTxFailed ==
    /\ call.fn = "handle_result"
    /\ Applied
    /\ call.result.err = TxFailed("InsufficientDeposit", 6002)
    /\ ret[1].status = 400
    /\ ret[1].code = 6002

\* C27: get_tx_events_for_subaccount_id returns TxNotFound (HTTP 404) exactly
\* when the signature parses and the lookup fails with the deserialisation
\* error kind; every other failed lookup returns a response with
\* success = false, a reason and no events; a signature that does not parse
\* returns BadRequest and no lookup is made.
C27_NotFoundOnlyOnSerdeError ==
    (call.fn = "get_tx_events" /\ Applied) =>
        LET h == ret[1].handled
            lookup_failed == call.tx_sig.parses /\ ~call.lookup.ok
        IN  /\ (~h.panicked /\ ~h.result.ok /\ h.result.err.kind = "TxNotFound")
                  <=> (lookup_failed /\ call.lookup.kind = "SerdeJson")
            /\ (lookup_failed /\ call.lookup.kind = "SerdeJson") =>
                  /\ h.result.err = TxNotFound(call.tx_sig.s)
                  /\ ret[1].response.status = 404
            /\ (lookup_failed /\ call.lookup.kind # "SerdeJson") =>
                  /\ ~h.panicked
                  /\ h.result.ok
                  /\ h.result.val.success = FALSE
                  /\ h.result.val.error.some
                  /\ h.result.val.events = <<>>
                  /\ ret[1].response.status = 200
            /\ ~call.tx_sig.parses =>
                  /\ ~h.panicked
                  /\ ~h.result.ok
                  /\ h.result.err.kind = "BadRequest"
                  /\ h.lookups = 0
                  /\ ret[1].response.status = 400

\* a lookup that failed with the deserialisation kind, answered with 404
C27_Witness ==
    /\ call.fn = "get_tx_events"
    /\ Applied
    /\ call.tx_sig.parses
    /\ ~call.lookup.ok
    /\ call.lookup.kind = "SerdeJson"
    /\ ret[1].handled.lookups = 1
    /\ ret[1].response = HttpError(404, 404, call.tx_sig.s)

\* a lookup that failed with a program error, answered with success = false
C27_WitnessProgramError ==
    /\ call.fn = "get_tx_events"
    /\ Applied
    /\ call.tx_sig.parses
    /\ call.lookup = LookupErr("RpcError", Some(6002), FALSE, "rpc error")
    /\ ret[1].response.status = 200
    /\ ret[1].handled.result.val = TxEventsResponse(<<>>, FALSE, Some("program error"))

\* the value of decimal x is at most that of decimal y
DecimalLeq(x, y) == x.m * Pow(10, y.s) <= y.m * Pow(10, x.s)

\* C28 as stated: for every non-negative decimal x (mantissa m, scale s) and
\* every target t, scale_decimal_to_u64(x, t) is floor(|m| * t / 10^s), and it
\* is order-preserving: a decimal that is no larger never converts to more.
C28_ScaleIsFloor ==
    (call.fn = "scale_decimal_to_u64" /\ Applied) =>
        /\ ret[1] = (Abs(call.x.m) * call.target) \div Pow(10, call.x.s)
        /\ \A y \in UnsignedDecimals :
              DecimalLeq(y, call.x) => scale_decimal_to_u64(y, call.target) <= ret[1]

\* C29 as stated: the oracle_price_offset of the order parameters is negative
\* only if the intent's offset is negative, positive only if it is positive,
\* and its magnitude is floor(|x| * 10^6).
C29_OffsetKeepsSign ==
    (call.fn = "to_order_params" /\ Applied /\ call.self.oracle_price_offset.some) =>
        LET x == call.self.oracle_price_offset.v
            offset == ret[1].oracle_price_offset
        IN  /\ offset.some
            /\ (offset.v < 0) => (x.m < 0)
            /\ (offset.v > 0) => (x.m > 0)
            /\ Abs(offset.v) = (Abs(x.m) * PRICE_PRECISION) \div Pow(10, x.s)

\* C30: in the order parameters the direction is Short exactly when the
\* amount is negative (Long otherwise), base_asset_amount is the absolute
\* amount scaled to the base precision, and price is the scaled price when
\* no oracle_price_offset is set and 0 when one is set, whatever the price.
C30_OrderParams ==
    (call.fn = "to_order_params" /\ Applied) =>
        LET o == call.self
            p == ret[1]
        IN  /\ (p.direction = "short") <=> (o.amount.m < 0)
            /\ (p.direction = "long") <=> (o.amount.m >= 0)
            /\ p.base_asset_amount =
                  scale_decimal_to_u64(Decimal(Abs(o.amount.m), o.amount.s),
                                       Pow(10, call.base_decimals))
            /\ ~o.oracle_price_offset.some =>
                  p.price = scale_decimal_to_u64(o.price, PRICE_PRECISION)
            /\ o.oracle_price_offset.some => p.price = 0

\* a short intent with a non-zero price and an offset: price 0 is sent
C30_Witness ==
    /\ call.fn = "to_order_params"
    /\ Applied
    /\ call.self.amount = Decimal(0 - 123, 2)
    /\ call.self.price = Decimal(421, 1)
    /\ call.self.oracle_price_offset = Some(Decimal(0 - 5, 1))
    /\ call.base_decimals = 3
    /\ ret[1].direction = "short"
    /\ ret[1].base_asset_amount = 1230
    /\ ret[1].price = 0
    /\ ret[1].oracle_price_offset = Some(0 - 500000)

\* a long intent without an offset: the scaled price is sent
C30_WitnessPrice ==
    /\ call.fn = "to_order_params"
    /\ Applied
    /\ call.self.amount = Decimal(123, 0)
    /\ call.self.price = Decimal(421, 1)
    /\ ~call.self.oracle_price_offset.some
    /\ ret[1].direction = "long"
    /\ ret[1].price = 42100000
    /\ ~ret[1].oracle_price_offset.some

\* create_wallet has been applied and returned a wallet of `mode`
WalletIs(mode) == ~ret[1].panicked /\ ret[1].v.mode = mode

\* C31 as stated: a secret key without a delegate yields an owner wallet, a
\* secret key with a delegate a delegated wallet, no secret key with an
\* emulated authority and no delegate a read-only wallet, and every other
\* combination aborts startup.
C31_WalletByArguments ==
    (call.fn = "create_wallet" /\ Applied) =>
        LET key == call.secret_key.some
            emulate == call.emulate.some
            delegate == call.delegate.some
        IN  /\ (key /\ ~delegate) => WalletIs("owner")
            /\ (key /\ delegate) => WalletIs("delegated")
            /\ (~key /\ emulate /\ ~delegate) => WalletIs("read_only")
            /\ (~key /\ (~emulate \/ delegate)) => ret[1].panicked

\* C31 amended: the same for a secret key that parses as a key; a secret key
\* that does not parse aborts startup, with or without a delegate.
C31_WalletByValidArguments ==
    (call.fn = "create_wallet" /\ Applied) =>
        LET key == call.secret_key.some
            valid == KeyParses(call.secret_key.v)
            emulate == call.emulate.some
            delegate == call.delegate.some
        IN  /\ (key /\ valid /\ ~delegate) =>
                  (WalletIs("owner") /\ ret[1].v.authority = call.secret_key.v)
            /\ (key /\ valid /\ delegate) =>
                  (WalletIs("delegated") /\ ret[1].v.authority = call.delegate.v)
            /\ (~key /\ emulate /\ ~delegate) =>
                  (WalletIs("read_only") /\ ret[1].v.authority = call.emulate.v
                   /\ ret[1].v.signer = "")
            /\ (key /\ ~valid) => ret[1].panicked
            /\ (~key /\ (~emulate \/ delegate)) => ret[1].panicked

\* no secret key, an emulated authority and a delegate: startup aborted
C31_Witness ==
    /\ call.fn = "create_wallet"
    /\ Applied
    /\ ~call.secret_key.some
    /\ call.emulate.some
    /\ call.delegate.some
    /\ ret[1].panicked

\* a secret key (an emulated authority beside it) and a delegate: delegated
C31_WitnessDelegated ==
    /\ call.fn = "create_wallet"
    /\ Applied
    /\ call.secret_key = Some("key")
    /\ call.emulate.some
    /\ call.delegate.some
    /\ WalletIs("delegated")

\* the request got as far as signing with a wallet that has no signing key
SigningFailed ==
    /\ wallet_read_only
    /\ http_pc = "done"
    /\ response.reason = "signer unavailable"

\* C32: with a read-only wallet a request whose blockhash was fetched ends
\* with the signer's error as an Sdk error (HTTP 500); the transaction is
\* never signed, never sent to any RPC (first send or retry) and no
\* confirmer task is ever spawned.
C32_SignerErrorNothingSent ==
    wallet_read_only =>
        /\ tx = <<>>
        /\ sent = ZeroSent
        /\ primary_res = NoSend
        /\ NoTask
        /\ http_pc \notin {"send_transaction"}
        /\ (http_pc = "done" /\ build_res.ok) =>
              response \in {handle_result(Err(SdkErr(reason))) :
                              reason \in {"signer unavailable", "get_latest_blockhash failed"}}
        /\ SigningFailed => (build_res.ok /\ response = HttpError(500, 500, "signer unavailable"))

C32_Witness ==
    /\ SigningFailed
    /\ build_res.ok
    /\ response.status = 500
    /\ extra_rpcs # {}

\* C37: when the first send to the primary RPC fails with an error carrying
\* no Anchor code, the request ends with an Sdk error (HTTP 500), no
\* confirmer task is spawned and no secondary RPC is ever sent to.
C37_TransportErrorIsSdk ==
    (primary_res.status = "err" /\ ~primary_res.err.some) =>
        /\ http_pc = "done"
        /\ response = handle_result(Err(SdkErr("rpc error")))
        /\ response.status = 500
        /\ OnlyFirstSend
        /\ NoTask

C37_Witness ==
    /\ primary_res = SendErr(None(0))
    /\ response = HttpError(500, 500, "rpc error")
    /\ extra_rpcs # {}
    /\ sent[PrimaryRpc] = 1

\* the ttl of the request in seconds: ttl.unwrap_or(DEFAULT_TX_TTL)
TtlSecs == IF req.ttl.some THEN req.ttl.v ELSE DEFAULT_TX_TTL
\* ceil(T / 0.8), in whole milliseconds
MaxRounds == (TtlSecs * MsPerSec + RetrySleepMs - 1) \div RetrySleepMs
\* the re-broadcast rounds started so far: the primary is sent to once per
\* round, after the first send
Rounds == sent[PrimaryRpc] - 1

\* C38: a confirmer with ttl T starts at most ceil(T / 0.8) re-broadcast
\* rounds; with ttl 0 it makes no re-broadcast and no status poll and ends
\* with the transaction not confirmed.
C38_RoundsBoundedByTtl ==
    (primary_res = SendOk) =>
        /\ Rounds <= MaxRounds
        /\ \A r \in extra_rpcs : sent[r] <= MaxRounds
        /\ (req.ttl = Some(0)) =>
              /\ OnlyFirstSend
              /\ last_poll = "none"
              /\ ~confirmed
              /\ task_pc \in {"spawned", "loop", "done"}

\* the default ttl of 6 s run out in 8 rounds
C38_Witness ==
    /\ ~req.ttl.some
    /\ task_pc = "done"
    /\ ~confirmed
    /\ Rounds = 8
    /\ MaxRounds = 8

\* ttl 0: the task has ended without a round
C38_WitnessZeroTtl ==
    /\ req.ttl = Some(0)
    /\ task_pc = "done"
    /\ ~confirmed
    /\ Rounds = 0

\* C34: the step that starts a round sends once to the primary RPC and once
\* to each configured secondary RPC, and the task makes no other send; a
\* send of the round that fails does not end the round or the task: the
\* round goes on to its other sends, then to the sleep and to the status
\* poll, and a poll that does not confirm goes back to the loop condition.
C34_RoundSendsOnceToEach ==
    [][/\ (task_pc \notin {"idle", "spawned"} /\ sent' # sent) =>
            /\ task_pc = "loop" /\ task_pc' = "sending"
            /\ \A r \in RpcIds :
                  sent'[r] = sent[r] + (IF r \in extra_rpcs \cup {PrimaryRpc} THEN 1 ELSE 0)
       /\ (task_pc = "sending") =>
            /\ task_pc' \in {"sending", "sleep"}
            /\ (task_pc' = "sleep") => Cardinality(Pending) = 1
            /\ (elapsed' = elapsed) =>
                  IF Cardinality(Pending) = 1 THEN task_pc' = "sleep"
                  ELSE Len(round_done') = Len(round_done) + 1
       /\ (task_pc = "sleep") => task_pc' \in {"sleep", "poll"}
       /\ (task_pc = "poll" /\ ~confirmed') => task_pc' \in {"poll", "loop"}]_vars

\* every send of the first round failed, to the primary and to a secondary;
\* the poll took place and the second round has started
C34_Witness ==
    /\ extra_rpcs # {}
    /\ absorbed = Recipients
    /\ Rounds = 2
    /\ task_pc = "sending"
    /\ round_done = <<>>
    /\ last_poll = "none"

\* sends failed and the task still ran its 8 rounds to the default ttl
C34_WitnessAllRounds ==
    /\ extra_rpcs # {}
    /\ absorbed = Recipients
    /\ ~req.ttl.some
    /\ Rounds = 8
    /\ \A r \in extra_rpcs : sent[r] = 8
    /\ task_pc = "done"

\* C33: for each intent type the transaction built carries a priority-fee
\* price, equal to the client's computeUnitPrice when given and otherwise
\* to the oracle's 90th-percentile value.
C33_PriorityFeeOfEveryIntent ==
    (call.fn = "priority_fee" /\ Applied) =>
        ret[1] = Some(IF call.cu_price.some THEN call.cu_price.v ELSE call.oracle)

\* the handler awaits I/O: the send of the error frame onto the outbound
\* channel, or the opening of the event stream
HandlerAwaitsIo == ws_pc \in {"send_exists", "send_parse_error", "send_close", "subscribe"}

\* C35: the lock of the subscription map is held across map reads and
\* writes only: in no reachable state is it held while the handler or a
\* task awaits I/O.
C35_LockNotHeldAcrossIo ==
    locked => ~HandlerAwaitsIo

\* C36: a subscription task removes a map entry only when that entry is its
\* own: a step that clears an entry is a step of the task the entry names
\* (its own removal, or its abort by unsubscribe).
C36_TaskRemovesOnlyOwnEntry ==
    [][\A id \in SubIds :
          (subscriptions[id] # 0 /\ subscriptions'[id] = 0) =>
              sub_tasks'[subscriptions[id]] # sub_tasks[subscriptions[id]]]_vars

\* the Fill returned carries this raw side, fee and order id
FillOf(side, fee, order_id) ==
    /\ Yields("fills", "Fill")
    /\ side.some
    /\ ret[1].v.data.v.side = (IF side.v = "long" THEN "buy" ELSE "sell")
    /\ ret[1].v.data.v.fee = normalize(PriceDecimal(fee))
    /\ ret[1].v.data.v.order_id = order_id

\* C39: a raw OrderFill whose maker and taker are both the subscriber yields
\* one Fill, the maker's leg (side, fee and order id of the maker); with the
\* subscriber the taker only, the Fill is the taker's leg.
C39_MakerLegFirst ==
    MappedTo("OrderFill") =>
        /\ (SubscriberIsMaker /\ SubscriberIsTaker) =>
              FillOf(call.event.maker_side, call.event.maker_fee, call.event.maker_order_id)
        /\ (~SubscriberIsMaker /\ SubscriberIsTaker) =>
              FillOf(call.event.taker_side, call.event.taker_fee, call.event.taker_order_id)

CancelOps == {"cancel_orders", "cancel_orders_by_user_id", "cancel_orders_by_id", "cancel_all_orders"}

\* C40: every transaction built by cancel_and_place_orders starts with a
\* cancel instruction and holds no other; a cancel part without market,
\* user_ids and ids gives cancel_all_orders, ahead of the modify and place
\* instructions, and is never a reason to reject the request.
C40_CancelAndPlaceAlwaysCancels ==
    (Built /\ req.kind = "cancel_and_place") =>
        /\ build_res.ok =>
              /\ Len(build_res.val) >= 2
              /\ build_res.val[1].op \in CancelOps
              /\ \A i \in 2..Len(build_res.val) : build_res.val[i].op \notin CancelOps
              /\ build_res.val[Len(build_res.val)].op = "place_orders"
        /\ (req.cancel = DefaultCancel) =>
              /\ CancelPart.ok
              /\ build_res.ok <=> ModifyPart.ok
              /\ build_res.ok => build_res.val[1] = Ix("cancel_all_orders", PerpMarket, <<>>)
        /\ (sent # ZeroSent) => (tx # <<>> /\ tx[1].op \in CancelOps)

\* an empty cancel part with a modify and a place: sent as cancel all,
\* modify, place
C40_Witness ==
    /\ req.kind = "cancel_and_place"
    /\ req.cancel = DefaultCancel
    /\ response = HttpOk(Signature)
    /\ sent[PrimaryRpc] = 1
    /\ tx = <<Ix("cancel_all_orders", PerpMarket, <<>>),
              Ix("modify_orders", PerpMarket, <<42>>),
              Ix("place_orders", PerpMarket, <<7>>)>>

====
